---- MODULE Spec2Model ----
(***************************************************************************)
(* A model of the chunked random-access encrypted file of absfs/encryptfs: *)
(* the ChunkedFile handle (current chunk buffer, chunk index, chunk cache) *)
(* over a backing file of chunk records.                                   *)
(*                                                                         *)
(* Plaintext bytes are small integers (0 is the zero fill).  Encryption is *)
(* an authenticated box: a chunk record on the backing file carries its    *)
(* nonce and its plaintext, and decrypts only while no byte of its nonce,  *)
(* ciphertext or tag has been overwritten and the length read is the       *)
(* length written.  rand.Read is an ideal generator: every draw is a value *)
(* never drawn before (a counter).                                         *)
(***************************************************************************)
EXTENDS Integers, Sequences, FiniteSets, TLC

\* ---------------------------------------------------------------- bounds
\* chunk size of the modelled file (cf.chunkSize), scaled down
ChunkSize == 2
\* largest plaintext position a call of the model may reach
MaxPos == 4
\* longest payload of one Write / WriteAt
MaxWrite == 3
\* largest payload byte value (payload bytes are 1..MaxByte)
MaxByte == 1
\* number of nonces the generator hands out before the model stops flushing
MaxNonce == 3
\* largest position at which a bulk write of 4 chunks may start
MaxBulkStart == 1
\* number of chunks of the longest file written by long writes
MaxChunks == 1712
\* number of full chunks one long write carries
ChunksPerWrite == 16
\* largest number of chunk jobs of one bulk encryption or decryption
MaxJobs == 5
\* largest configured Parallel.MaxWorkers
MaxWorkers == 2

\* number of key providers (passphrases)
NumKeys == 2
\* number of paths of the base filesystem
NumFiles == 2
\* longest plaintext of a file of the filesystem
MaxFileLen == 1
\* longest plaintext path, in characters, and longest name handed to
\* DecryptPath, in symbols
MaxPathLen == 3
MaxEncLen == 2
\* number of UUIDs the random mode can mint for path components
PathTokens == 2
\* longest plaintext of the single-blob file, and most flushes and most
\* headers made for it
MaxBlobLen == 2
MaxFlushes == 3
MaxHeaders == 2
\* chunks of an index built by AddChunk alone, and the plaintext size of one
MaxFindChunks == 3
MaxFindSize == 3
\* the highest chunk a handle loads into its cache, and the chunks it loads
\* again
MaxCacheKey == 17
HotKeys == {0, 1}
\* passphrases, and values rand.Read gives a salt
NumPasswords == 2
NumSalts == 2
\* the filesystem instances over one backing store
Instances == 1..2
\* number of encrypted filenames (tokens) and of plaintext filenames
NumTokens == 3
NumNames == 2

\* ------------------------------------------------------ program constants
MinHeaderSize == 8
SaltSize == 32
NonceSize == 12
Overhead == 16
PlaintextSizeField == 4
ChunkIndexReservedSize == 20480
CacheCapacity == 16
BulkThreshold == 4
MinChunksForParallel == 4

VARIABLES
    position,      \* cf.position
    dirty,         \* cf.dirty
    chunkDirty,    \* cf.chunkDirty
    currentIdx,    \* cf.currentIdx
    currentBuf,    \* cf.currentBuf: [isNil, b]
    chunkIndex,    \* cf.chunkIndex: [ChunkOffsets, PlaintextSizes]
    cache,         \* cf.cache: [cache, lru]
    base,          \* cf.base, the backing file: [open, size, recs, index]
    nonceCtr,      \* state of the random generator
    usedNonces,    \* every nonce handed to engine.Encrypt, in order
    fault,         \* the failure the backing store will raise next
    ref,           \* the plain byte array the calls would produce
    mu,            \* cf.mu: the thread that holds it, 0 when free
    thr,           \* per thread: the public method it is in and where
    parMain,       \* parallelEncryptChunks / parallelDecryptChunks: where the caller is
    jobChan,       \* jobChan: [q, closed]
    errChan,       \* errChan: [q, closed]
    wg,            \* the WaitGroup counter
    workers,       \* per worker goroutine: where it is, and its job
    chunks,        \* per chunk job: whether its output is filled in
    raised,        \* the failures of engine calls so far, and the first one sent
    files,         \* the base filesystem: what each path holds
    rekey,         \* the ReEncrypt / RotateAllKeys call under way
    catalog,       \* the FilenameMetadata of the random filename encryptor
    metaFile,      \* the metadata file Save writes and Load reads
    handles,       \* per plaintext name: the file created under it, and its token
    encMu,         \* randomFilenameEncryptor.mu: the thread that holds it, 0 for none
    encThr,        \* per thread: where its call of EncryptFilename stands
    issued,        \* the <<plaintext, token>> pairs EncryptFilename has returned
    pathOp,        \* the filename mode, and the last EncryptPath / DecryptPath call
    blob,          \* a single-blob file: its handle, its stored bytes, the encryptions made
    inst,          \* a call of New: its Config, its result, the chunk engine opened
    found,         \* a ChunkIndexHeader, and the last FindChunkForOffset call on it
    chunkCache,    \* a chunkCache, the order its entries were last used in, its last eviction
    twins          \* two instances over one backing store: their keys, the store, the last Open

engineVars == <<position, dirty, chunkDirty, currentIdx, currentBuf, chunkIndex,
                cache, base, nonceCtr, usedNonces, fault, ref>>

concVars == <<mu, thr>>

parVars == <<parMain, jobChan, errChan, wg, workers, chunks, raised>>

encVars == <<encMu, encThr, issued>>
unitVars == <<found, chunkCache, twins>>
restVars == <<blob, inst, unitVars>>
catVars == <<catalog, metaFile, handles, encVars, pathOp, restVars>>
fsVars == <<files, rekey, catVars>>

\* ---------------------------------------------------------------- helpers
Min(a, b) == IF a < b THEN a ELSE b
Max(a, b) == IF a > b THEN a ELSE b

Zeros(n) == [i \in 1..n |-> 0]

\* the sum of s[lo..hi]
RECURSIVE SumRange(_, _, _)
SumRange(s, lo, hi) ==
    IF lo > hi THEN 0
    ELSE IF lo = hi THEN s[lo]
    ELSE LET mid == (lo + hi) \div 2
         IN SumRange(s, lo, mid) + SumRange(s, mid + 1, hi)

SumSeq(s) == SumRange(s, 1, Len(s))

OK == "nil"

NilBuf == [isNil |-> TRUE, b |-> <<>>]
Buf(b) == [isNil |-> FALSE, b |-> b]

\* payloads of the calls: n copies of one byte
Payloads == {[i \in 1..n |-> v] : n \in 1..MaxWrite, v \in 1..MaxByte}

\* the plain byte array after writing p at position pos (holes read as zero)
ApplyWrite(arr, pos, p) ==
    LET la == Len(arr)
        lp == Len(p)
    IN [i \in 1..Max(la, pos + lp) |->
           IF i > pos /\ i <= pos + lp THEN p[i - pos]
           ELSE IF i <= la THEN arr[i] ELSE 0]

\* ------------------------------------------------------------ chunk index
NewChunkIndexHeader == [ChunkOffsets |-> <<>>, PlaintextSizes |-> <<>>]

ChunkCount(h) == Len(h.ChunkOffsets)

AddChunk(h, offset, plaintextSize) ==
    [ChunkOffsets |-> Append(h.ChunkOffsets, offset),
     PlaintextSizes |-> Append(h.PlaintextSizes, plaintextSize)]

TotalPlaintextSize(h) == SumSeq(h.PlaintextSizes)

ActualSize(h) == 8 + Len(h.ChunkOffsets) * 8 + Len(h.PlaintextSizes) * 4

\* number of bytes ChunkIndexHeader.WriteTo hands to the writer
IndexWriteLen(actualSize) ==
    LET paddingSize == ChunkIndexReservedSize - actualSize
    IN actualSize + (IF paddingSize > 0 THEN paddingSize ELSE 0)

\* the walk with a chunk taken to reach one byte further than it does
RECURSIVE FindFromInclusive(_, _, _, _)
FindFromInclusive(h, offset, i, cur) ==
    IF i >= ChunkCount(h)
    THEN IF offset = cur THEN [idx |-> ChunkCount(h), off |-> 0, err |-> OK]
         ELSE [idx |-> 0, off |-> 0, err |-> "beyond"]
    ELSE IF offset <= cur + h.PlaintextSizes[i + 1]
         THEN [idx |-> i, off |-> offset - cur, err |-> OK]
         ELSE FindFromInclusive(h, offset, i + 1, cur + h.PlaintextSizes[i + 1])

\* walk of the cumulative sizes from chunk i (0-based) with currentOffset cur
RECURSIVE FindFrom(_, _, _, _)
FindFrom(h, offset, i, cur) ==
    IF i >= ChunkCount(h)
    THEN IF offset = cur THEN [idx |-> ChunkCount(h), off |-> 0, err |-> OK]
         ELSE [idx |-> 0, off |-> 0, err |-> "beyond"]
    ELSE IF offset < cur + h.PlaintextSizes[i + 1]
         THEN [idx |-> i, off |-> offset - cur, err |-> OK]
         ELSE FindFrom(h, offset, i + 1, cur + h.PlaintextSizes[i + 1])

FindChunkForOffset(h, offset) ==
    IF offset < 0 THEN [idx |-> 0, off |-> 0, err |-> "negative"]
    ELSE FindFrom(h, offset, 0, 0)

\* ------------------------------------------------------------ backing file
FileHeaderSize == MinHeaderSize + SaltSize + 2 + NonceSize

ChunkHeaderSize == PlaintextSizeField + NonceSize

\* bytes of the record of a chunk of n plaintext bytes
RecordSize(n) == ChunkHeaderSize + n + Overhead

\* records after bytes [o, o+len) were written: a record (other than the one
\* at o) whose nonce, ciphertext or tag lies in the range no longer decrypts
Damage(recs, o, len) ==
    [q \in DOMAIN recs |->
        IF q # o /\ q + PlaintextSizeField < o + len /\ o < q + recs[q].ext
        THEN [recs[q] EXCEPT !.ok = FALSE] ELSE recs[q]]

PutRec(recs, o, r) == [q \in DOMAIN recs \cup {o} |-> IF q = o THEN r ELSE recs[q]]

\* base.Write of a chunk header (plaintext size, nonce) at offset o
WriteChunkHeader(b, o, nonce) ==
    LET rs == Damage(b.recs, o, ChunkHeaderSize)
        r  == IF o \in DOMAIN rs
              THEN [rs[o] EXCEPT !.nonce = nonce, !.ok = FALSE]
              ELSE [nonce |-> nonce, data |-> <<>>, ok |-> FALSE, ext |-> ChunkHeaderSize]
    IN [b EXCEPT !.recs = PutRec(rs, o, r), !.size = Max(@, o + ChunkHeaderSize)]

\* base.Write of ciphertext and tag behind the chunk header written at o
WriteCiphertext(b, o, nonce, data) ==
    LET rs == Damage(b.recs, o, RecordSize(Len(data)))
        r  == [nonce |-> nonce, data |-> data, ok |-> TRUE, ext |-> RecordSize(Len(data))]
    IN [b EXCEPT !.recs = PutRec(rs, o, r), !.size = Max(@, o + RecordSize(Len(data)))]

\* ------------------------------------------------------------ chunk cache
NewChunkCache == [cache |-> <<>>, lru |-> <<>>]

CacheHas(c, key) == key \in DOMAIN c.cache

CachePut(c, key, data) ==
    LET evict == Cardinality(DOMAIN c.cache) >= CacheCapacity /\ Len(c.lru) > 0
        keep  == IF evict THEN DOMAIN c.cache \ {Head(c.lru)} ELSE DOMAIN c.cache
        lru1  == IF evict THEN Tail(c.lru) ELSE c.lru
    IN [cache |-> [k \in keep \cup {key} |-> IF k = key THEN data ELSE c.cache[k]],
        lru   |-> Append(lru1, key)]

\* ------------------------------------------------------------ the handle
\* the handle and its backing file as one value; err, n and out are the
\* results of the call being evaluated, failed says that a write of a chunk
\* to the backing file failed during it
Cur == [position |-> position, dirty |-> dirty, chunkDirty |-> chunkDirty,
        currentIdx |-> currentIdx, currentBuf |-> currentBuf,
        chunkIndex |-> chunkIndex, cache |-> cache, base |-> base,
        nonceCtr |-> nonceCtr, usedNonces |-> usedNonces, fault |-> fault,
        err |-> OK, n |-> 0, out |-> <<>>, failed |-> FALSE]

Fail(s, e) == [s EXCEPT !.err = e]

\* a flush that keeps the nonce of the record it rewrites
StoredNonce(s) ==
    LET exists == s.currentIdx < ChunkCount(s.chunkIndex)
        offset == IF exists THEN s.chunkIndex.ChunkOffsets[s.currentIdx + 1] ELSE 0
    IN IF exists /\ offset \in DOMAIN s.base.recs /\ s.base.recs[offset].nonce # 0
       THEN s.base.recs[offset].nonce
       ELSE s.nonceCtr + 1

\* rand.Read(nonce) in flushCurrentChunk: a value never drawn before
FlushNonce(s) == s.nonceCtr + 1

\* a flush that leaves the chunk marked dirty
FlushKeepsDirty == TRUE

\* cf.chunkDirty after a flush that wrote the chunk
FlushedChunkDirty == FALSE

\* readChunk: the record at the indexed offset, read with the indexed size
readChunk(s, chunkIdx) ==
    LET offset == s.chunkIndex.ChunkOffsets[chunkIdx + 1]
        plaintextSize == s.chunkIndex.PlaintextSizes[chunkIdx + 1]
    IN IF ~s.base.open THEN [err |-> "closed", data |-> <<>>]
       ELSE IF offset + RecordSize(plaintextSize) > s.base.size
            THEN [err |-> "io", data |-> <<>>]
       ELSE IF offset \in DOMAIN s.base.recs
               /\ s.base.recs[offset].ok
               /\ Len(s.base.recs[offset].data) = plaintextSize
            THEN [err |-> OK, data |-> s.base.recs[offset].data]
       ELSE [err |-> "auth", data |-> <<>>]

flushCurrentChunk(s) ==
    IF ~s.chunkDirty \/ s.currentBuf.isNil THEN Fail(s, OK)
    ELSE
      LET nonce  == FlushNonce(s)
          s1     == [s EXCEPT !.nonceCtr = Max(@, nonce),
                              !.usedNonces = Append(@, nonce)]
          exists == s.currentIdx < ChunkCount(s.chunkIndex)
          offset == IF exists THEN s.chunkIndex.ChunkOffsets[s.currentIdx + 1]
                    ELSE s.base.size
          buf    == s.currentBuf.b
      IN IF ~s.base.open THEN [Fail(s1, "closed") EXCEPT !.failed = TRUE]
         ELSE IF s.fault = "hdr"
              THEN [Fail(s1, "io") EXCEPT !.fault = "none", !.failed = TRUE]
         ELSE IF s.fault = "ct"
              THEN [Fail(s1, "io") EXCEPT !.fault = "none", !.failed = TRUE,
                                          !.base = WriteChunkHeader(s.base, offset, nonce)]
         ELSE [s1 EXCEPT
                 !.base = WriteCiphertext(s.base, offset, nonce, buf),
                 !.chunkIndex = IF exists
                                THEN [@ EXCEPT !.PlaintextSizes[s.currentIdx + 1] = Len(buf)]
                                ELSE AddChunk(@, offset, Len(buf)),
                 !.chunkDirty = FlushedChunkDirty,
                 !.err = OK]

ensureChunkLoaded(s, chunkIdx) ==
    IF chunkIdx = s.currentIdx /\ ~s.currentBuf.isNil THEN Fail(s, OK)
    ELSE
      LET f == IF s.chunkDirty /\ ~s.currentBuf.isNil THEN flushCurrentChunk(s)
               ELSE Fail(s, OK)
      IN IF f.err # OK THEN f
         ELSE IF chunkIdx >= ChunkCount(f.chunkIndex)
              THEN [f EXCEPT !.currentBuf = Buf(<<>>), !.currentIdx = chunkIdx,
                             !.chunkDirty = FALSE]
         ELSE IF CacheHas(f.cache, chunkIdx)
              THEN [f EXCEPT !.currentBuf = Buf(f.cache.cache[chunkIdx]),
                             !.currentIdx = chunkIdx, !.chunkDirty = FALSE]
         ELSE LET r == readChunk(f, chunkIdx)
              IN IF r.err # OK THEN Fail(f, r.err)
                 ELSE [f EXCEPT !.currentBuf = Buf(r.data), !.currentIdx = chunkIdx,
                                !.chunkDirty = FALSE,
                                !.cache = CachePut(@, chunkIdx, r.data)]

findOrCreateChunkForWrite(pos) == [idx |-> pos \div ChunkSize, off |-> pos % ChunkSize]

\* the loop of Write / writeInternal; s.n is totalWritten
RECURSIVE writeInternal(_, _)
writeInternal(s, p) ==
    IF s.n >= Len(p) THEN s
    ELSE
      LET c  == findOrCreateChunkForWrite(s.position)
          s1 == ensureChunkLoaded(s, c.idx)
      IN IF s1.err # OK THEN s1
         ELSE
           LET old        == s1.currentBuf.b
               wanted     == c.off + (Len(p) - s.n)
               neededSize == IF wanted > Len(old) THEN Min(wanted, ChunkSize) ELSE Len(old)
               grown      == [i \in 1..neededSize |-> IF i <= Len(old) THEN old[i] ELSE 0]
               available  == ChunkSize - c.off
               toWrite    == Min(Len(p) - s.n, available)
               newBuf     == [i \in 1..neededSize |->
                                 IF i > c.off /\ i <= c.off + toWrite
                                 THEN p[s.n + i - c.off] ELSE grown[i]]
           IN writeInternal([s1 EXCEPT !.currentBuf = Buf(newBuf),
                                       !.n = @ + toWrite,
                                       !.position = @ + toWrite,
                                       !.chunkDirty = TRUE,
                                       !.dirty = TRUE], p)

\* the loop of Read / readInternal for a buffer of len bytes; fileSize is
\* the total of the index taken before the loop, s.out holds the bytes
\* delivered.  A step that would copy a negative count panics (slice bounds
\* out of range); a step that copies nothing repeats forever.
RECURSIVE readLoop(_, _, _)
readLoop(s, len, fileSize) ==
    IF Len(s.out) >= len THEN s
    ELSE IF s.position >= fileSize
         THEN IF Len(s.out) = 0 THEN Fail(s, "EOF") ELSE s
    ELSE
      LET f == FindChunkForOffset(s.chunkIndex, s.position)
      IN IF f.err # OK THEN Fail(s, f.err)
         ELSE
           LET s1 == ensureChunkLoaded(s, f.idx)
           IN IF s1.err # OK THEN s1
              ELSE
                LET available == Len(s1.currentBuf.b) - f.off
                    toRead    == Min(len - Len(s.out), available)
                IN IF toRead < 0 THEN Fail(s1, "panic")
                   ELSE IF toRead = 0 THEN Fail(s1, "hang")
                   ELSE readLoop(
                          [s1 EXCEPT !.out = @ \o SubSeq(s1.currentBuf.b, f.off + 1, f.off + toRead),
                                     !.position = @ + toRead], len, fileSize)

readInternal(s, len) == readLoop(s, len, TotalPlaintextSize(s.chunkIndex))

\* writeHeaders: the file header, then the chunk index, from offset 0
writeHeaders(s) ==
    IF ~s.base.open THEN Fail(s, "closed")
    ELSE LET len == IndexWriteLen(ActualSize(s.chunkIndex))
         IN [s EXCEPT !.base.recs = Damage(@, FileHeaderSize, len),
                      !.base.index = s.chunkIndex,
                      !.base.size = Max(@, FileHeaderSize + len),
                      !.err = OK]

\* the body of Sync
SyncBody(s) ==
    LET f == IF s.chunkDirty THEN flushCurrentChunk(s) ELSE Fail(s, OK)
    IN IF f.err # OK THEN f
       ELSE LET h == IF f.dirty THEN writeHeaders(f) ELSE Fail(f, OK)
            IN IF h.err # OK THEN h
               ELSE IF ~h.base.open THEN Fail([h EXCEPT !.dirty = FALSE], "closed")
               ELSE [h EXCEPT !.dirty = FALSE]

\* the body of Close
CloseBody(s) ==
    LET y == SyncBody(s)
    IN IF y.err # OK THEN y ELSE [y EXCEPT !.base.open = FALSE]

\* the body of Truncate: "Truncate not yet fully implemented for chunked
\* files", whatever the size
TruncateBody(s, size) == Fail(s, "notimplemented")


\* ------------------------------------------------------------ bulk write
ParallelEnabled == TRUE

\* the chunk jobs WriteBulk prepares for payload p at position pos
BulkJobs(pos, p) ==
    LET startChunkIdx == pos \div ChunkSize
        endChunkIdx   == (pos + Len(p) + ChunkSize - 1) \div ChunkSize
        off0          == pos % ChunkSize
        first         == Min(Len(p), ChunkSize - off0)
    IN [i \in 1..(endChunkIdx - startChunkIdx) |->
          LET offsetInChunk == IF i = 1 THEN off0 ELSE 0
              offset  == IF i = 1 THEN 0 ELSE first + (i - 2) * ChunkSize
              toWrite == Min(Len(p) - offset, ChunkSize - offsetInChunk)
          IN [index |-> startChunkIdx + i - 1,
              plaintext |-> Zeros(offsetInChunk) \o SubSeq(p, offset + 1, offset + toWrite)]]

\* rand.Read(nonce) for the i-th job of a bulk write
BulkNonce(s, i) == s.nonceCtr + i

\* base.Write of ciphertext at o after the write of the chunk header failed:
\* the bytes at o are no record
WriteHeaderless(b, o, data) ==
    LET len == Len(data) + Overhead
        rs  == Damage(b.recs, o, len)
    IN [b EXCEPT !.recs = PutRec(rs, o, [nonce |-> 0, data |-> <<>>, ok |-> FALSE, ext |-> len]),
                 !.size = Max(@, o + len)]

\* the loop of WriteBulk that writes the encrypted jobs k.. and updates the
\* index; no result of the backing file is looked at
RECURSIVE WriteJobs(_, _, _, _)
WriteJobs(s, jobs, nonces, k) ==
    IF k > Len(jobs) THEN s
    ELSE
      LET job    == jobs[k]
          exists == job.index < ChunkCount(s.chunkIndex)
          writeOffset == IF exists THEN s.chunkIndex.ChunkOffsets[job.index + 1]
                         ELSE IF s.base.open THEN s.base.size ELSE 0
          b1 == IF ~s.base.open THEN s.base
                ELSE IF s.fault = "hdr" THEN WriteHeaderless(s.base, writeOffset, job.plaintext)
                ELSE IF s.fault = "ct" THEN WriteChunkHeader(s.base, writeOffset, nonces[k])
                ELSE WriteCiphertext(s.base, writeOffset, nonces[k], job.plaintext)
          s1 == [s EXCEPT
                   !.base = b1,
                   !.failed = @ \/ ~s.base.open \/ s.fault # "none",
                   !.fault = "none",
                   !.chunkIndex = IF exists
                                  THEN [@ EXCEPT !.PlaintextSizes[job.index + 1] = Len(job.plaintext)]
                                  ELSE AddChunk(@, writeOffset, Len(job.plaintext))]
      IN WriteJobs(s1, jobs, nonces, k + 1)

WriteBulkBody(s, p) ==
    IF ~ParallelEnabled \/ Len(p) < ChunkSize * BulkThreshold THEN writeInternal(s, p)
    ELSE
      LET jobs   == BulkJobs(s.position, p)
          nonces == [i \in 1..Len(jobs) |-> BulkNonce(s, i)]
      IN IF Len(jobs) < MinChunksForParallel THEN writeInternal(s, p)
         ELSE
           LET s1 == [s EXCEPT !.position = @ + Len(p),
                               !.nonceCtr = Max(@, nonces[Len(jobs)]),
                               !.usedNonces = @ \o nonces]
               s2 == WriteJobs(s1, jobs, nonces, 1)
           IN [s2 EXCEPT !.dirty = TRUE, !.n = Len(p)]

\* the copy loop of ReadBulk over the decrypted jobs k..: the bytes put into
\* a buffer of len bytes, the first job from offsetInStart
RECURSIVE CopyJobs(_, _, _, _, _)
CopyJobs(plaintexts, k, offsetInStart, len, out) ==
    IF k > Len(plaintexts) THEN out
    ELSE
      LET startOffset == IF k = 1 THEN offsetInStart ELSE 0
          toCopy == Min(Len(plaintexts[k]) - startOffset, len - Len(out))
          out1   == out \o SubSeq(plaintexts[k], startOffset + 1, startOffset + toCopy)
      IN IF Len(out1) >= len THEN out1
         ELSE CopyJobs(plaintexts, k + 1, offsetInStart, len, out1)

\* the body of ReadBulk for a buffer of len bytes: below the thresholds the
\* read loop, else every chunk of the range read from the backing file and
\* decrypted, whatever the current chunk buffer and the cache hold
ReadBulkBody(s, len) ==
    LET fileSize == TotalPlaintextSize(s.chunkIndex)
    IN IF len = 0 THEN s
       ELSE IF s.position >= fileSize THEN Fail(s, "EOF")
       ELSE IF ~ParallelEnabled \/ len < ChunkSize * BulkThreshold THEN readInternal(s, len)
       ELSE
         LET start  == FindChunkForOffset(s.chunkIndex, s.position)
             endPos == Min(s.position + len, fileSize)
             endChunkIdx == IF endPos = fileSize THEN ChunkCount(s.chunkIndex)
                            ELSE FindChunkForOffset(s.chunkIndex, endPos - 1).idx + 1
             numChunks == endChunkIdx - start.idx
         IN IF numChunks < MinChunksForParallel THEN readInternal(s, len)
            ELSE
              LET jobs == [i \in 1..numChunks |-> readChunk(s, start.idx + i - 1)]
              IN IF \E i \in 1..numChunks : jobs[i].err # OK THEN Fail(s, "auth")
                 ELSE
                   LET out == CopyJobs([i \in 1..numChunks |-> jobs[i].data], 1,
                                       start.off, len, <<>>)
                   IN [s EXCEPT !.out = out, !.n = Len(out),
                                !.position = @ + Len(out), !.err = OK]

\* ------------------------------------------------------------ the calls
\* the handle and backing file after a call that ended in state s
Commit(s) ==
    /\ position' = s.position
    /\ dirty' = s.dirty
    /\ chunkDirty' = s.chunkDirty
    /\ currentIdx' = s.currentIdx
    /\ currentBuf' = s.currentBuf
    /\ chunkIndex' = s.chunkIndex
    /\ cache' = s.cache
    /\ base' = s.base
    /\ nonceCtr' = s.nonceCtr
    /\ usedNonces' = s.usedNonces
    /\ fault' = s.fault
    /\ UNCHANGED <<concVars, parVars, fsVars>>

\* bytes [pos, pos+n) lie inside one chunk the index h records, for the
\* routing of writes and for the routing of reads alike
InsideOneChunk(h, pos, n) ==
    LET c == findOrCreateChunkForWrite(pos)
        f == FindChunkForOffset(h, pos)
    IN /\ n > 0
       /\ c.idx < ChunkCount(h)
       /\ f.err = OK /\ f.idx = c.idx /\ f.off = c.off
       /\ c.off + n <= h.PlaintextSizes[c.idx + 1]

\* Seek(offset, whence) on handle s
SeekBody(s, offset, whence) ==
    LET fileSize == TotalPlaintextSize(s.chunkIndex)
        newPos == CASE whence = 0 -> offset
                    [] whence = 1 -> s.position + offset
                    [] whence = 2 -> fileSize + offset
                    [] OTHER -> 0
    IN IF whence \notin {0, 1, 2} THEN Fail(s, "whence")
       ELSE IF newPos < 0 THEN Fail(s, "negative")
       ELSE [s EXCEPT !.position = newPos, !.n = newPos, !.err = OK]

\* newChunkedFile and loadChunkedFile on the closed backing file of s
OpenBody(s) ==
    [s EXCEPT !.position = 0, !.dirty = FALSE, !.chunkDirty = FALSE,
              !.currentIdx = 0, !.currentBuf = NilBuf,
              !.chunkIndex = s.base.index, !.cache = NewChunkCache,
              !.base.open = TRUE, !.err = OK]

\* number of threads that call methods of one handle
NumThreads == 2

Threads == 1..NumThreads

\* a new handle on a fresh file
EngineInit ==
    /\ position = 0
    /\ dirty = FALSE
    /\ chunkDirty = FALSE
    /\ currentIdx = 0
    /\ currentBuf = NilBuf
    /\ chunkIndex = NewChunkIndexHeader
    /\ cache = NewChunkCache
    /\ base = [open |-> TRUE,
               size |-> FileHeaderSize + IndexWriteLen(ActualSize(NewChunkIndexHeader)),
               recs |-> <<>>,
               index |-> NewChunkIndexHeader]
    /\ nonceCtr = 0
    /\ usedNonces = <<>>
    /\ fault = "none"
    /\ ref = <<>>

\* no thread is inside a method of the handle
ConcIdle ==
    /\ mu = 0
    /\ thr = [t \in Threads |-> [op |-> "none", pc |-> "idle"]]

\* no bulk encryption or decryption is under way
ParIdle ==
    /\ parMain = [pc |-> "idle", i |-> 0, ret |-> [idx |-> 0, kind |-> "none"]]
    /\ jobChan = [q |-> <<>>, closed |-> FALSE]
    /\ errChan = [q |-> <<>>, closed |-> FALSE]
    /\ wg = 0
    /\ workers = <<>>
    /\ chunks = <<>>
    /\ raised = [all |-> {}, first |-> [idx |-> 0, kind |-> "nil"]]

\* a key provider is named by its passphrase: the key DeriveKey returns for a
\* file's salt authenticates the file iff the passphrase is the one the file
\* was written under
Keys == 1..NumKeys

Paths == 1..NumFiles

\* what a path of the base filesystem holds: nothing, a directory, a file of
\* size 0, a single-blob file or a chunked file written under key with
\* plaintext data
NoFile == [kind |-> "none", key |-> 0, data |-> <<>>]

Dir == [kind |-> "dir", key |-> 0, data |-> <<>>]

EmptyFile == [kind |-> "empty", key |-> 0, data |-> <<>>]

\* Config: the key providers (one provider, or the list of a
\* MultiKeyProvider) and whether ChunkSize > 0
DefaultConfig == [providers |-> <<1>>, chunked |-> FALSE]

\* no ReEncrypt or RotateAllKeys call is under way
IdleJob == [op |-> "none", pc |-> "idle", cfg |-> DefaultConfig, newKey |-> 1,
            dryRun |-> FALSE, path |-> 1, before |-> NoFile, content |-> <<>>,
            ret |-> OK, i |-> 0, rotated |-> 0, failed |-> 0, tried |-> {},
            tree |-> [p \in Paths |-> "none"], visited |-> {}]

\* no EncryptPath or DecryptPath call was made yet on an encryptor of this
\* mode (config.FilenameEncryption) and this config.PreserveExtensions
NoPathOp(mode, preserve) ==
    [mode |-> mode, preserve |-> preserve, op |-> "none", input |-> <<>>,
     output |-> <<>>, err |-> OK]

\* no single-blob file yet: nothing stored, no handle, no header made
NoBlob == [open |-> FALSE, salt |-> 0, nonce |-> 0, plaintext |-> <<>>, offset |-> 0,
           dirty |-> FALSE, stored |-> [size |-> 0, salt |-> 0, nonce |-> 0, data |-> <<>>],
           made |-> 0, log |-> <<>>]

\* New was not called yet
NoInstance ==
    [st |-> "none", err |-> OK, engineChunkSize |-> 0,
     cfg |-> [KeyProvider |-> TRUE, Cipher |-> TRUE, FilenameEncryption |-> "none",
              MetadataPath |-> FALSE, ChunkSize |-> 0, Parallel |-> "off"]]

\* NewFilenameMetadata: both maps empty
NewFilenameMetadata == [Mappings |-> <<>>, Reverse |-> <<>>]

\* no index built, no lookup made
NoFound == [h |-> NewChunkIndexHeader, called |-> FALSE, offset |-> 0,
            result |-> [idx |-> 0, off |-> 0, err |-> OK]]

\* newChunkCache(capacity): recent lists the keys held from the least to the
\* most recently used (put or hit), next is the first chunk not loaded yet,
\* evicted the key the last Put removed and oldest the key that was the
\* least recently used when it did
NoChunkCache == [c |-> NewChunkCache, recent |-> <<>>, next |-> 0,
                 evicted |-> {}, oldest |-> {}]

\* no instance created over the backing store, which is empty
NoTwins == [fs |-> [i \in Instances |-> [st |-> "none", password |-> 0, masterKey |-> <<>>]],
            store |-> {},
            opened |-> [done |-> FALSE, by |-> 1, name |-> 1, ok |-> FALSE]]

\* an empty base filesystem, with no metadata file
FsStoreIdle ==
    /\ files = [p \in Paths |-> NoFile]
    /\ rekey = IdleJob
    /\ catalog = NewFilenameMetadata
    /\ metaFile = [exists |-> FALSE, Mappings |-> <<>>, Reverse |-> <<>>]
    /\ handles = [p \in 1..NumNames |-> [st |-> "none", token |-> 0]]
    /\ encMu = 0
    /\ encThr = [t \in 1..NumThreads |-> [pc |-> "idle", name |-> 0, result |-> 0]]
    /\ issued = {}
    /\ blob = NoBlob
    /\ inst = NoInstance
    /\ found = NoFound
    /\ chunkCache = NoChunkCache
    /\ twins = NoTwins

\* the same, with filenames left as they are
FsIdle == FsStoreIdle /\ pathOp = NoPathOp("none", FALSE)

Init == EngineInit /\ ConcIdle /\ ParIdle /\ FsIdle

Write(p) ==
    /\ LET s == writeInternal(Cur, p)
       IN /\ Commit(s)
          /\ ref' = ApplyWrite(ref, position, SubSeq(p, 1, s.n))

Read(len) ==
    /\ LET s == IF len = 0 THEN Cur ELSE readInternal(Cur, len)
       IN Commit(s)
    /\ UNCHANGED ref

Seek(offset, whence) ==
    /\ LET s == SeekBody(Cur, offset, whence)
       IN Commit(s)
    /\ UNCHANGED ref

ReadAt(len, off) ==
    /\ LET s == IF len = 0 THEN Cur
                ELSE [readInternal([Cur EXCEPT !.position = off], len)
                        EXCEPT !.position = position]
       IN Commit(s)
    /\ UNCHANGED ref

WriteAt(p, off) ==
    /\ LET s == [writeInternal([Cur EXCEPT !.position = off], p)
                   EXCEPT !.position = position]
       IN /\ Commit(s)
          /\ ref' = ApplyWrite(ref, off, SubSeq(p, 1, s.n))

WriteBulk(p) ==
    /\ LET s == WriteBulkBody(Cur, p)
       IN /\ Commit(s)
          /\ ref' = ApplyWrite(ref, position, SubSeq(p, 1, s.n))

ReadBulk(len) ==
    /\ LET s == ReadBulkBody(Cur, len)
       IN Commit(s)
    /\ UNCHANGED ref

Sync ==
    /\ LET s == SyncBody(Cur)
       IN Commit(s)
    /\ UNCHANGED ref

Close ==
    /\ LET s == CloseBody(Cur)
       IN Commit(s)
    /\ UNCHANGED ref

Truncate(size) ==
    /\ LET s == TruncateBody(Cur, size)
       IN Commit(s)
    /\ UNCHANGED ref

\* fs.OpenFile(name, O_RDWR) on the closed file
Reopen ==
    /\ ~base.open
    /\ Commit(OpenBody(Cur))
    /\ UNCHANGED ref

\* the backing store fails the next write of a chunk header or of a ciphertext
InjectFault(kind) ==
    /\ fault = "none"
    /\ base.open
    /\ fault' = kind
    /\ UNCHANGED <<position, dirty, chunkDirty, currentIdx, currentBuf, chunkIndex,
                   cache, base, nonceCtr, usedNonces, ref, concVars, parVars, fsVars>>

ReadLens == {0, 1, MaxPos}

SeekOffsets == {-1, 0, 1, ChunkSize}

BulkPayloads == {[i \in 1..(ChunkSize * BulkThreshold) |-> v] : v \in 1..MaxByte}

vars == <<engineVars, concVars, parVars, fsVars>>

\* the bounds of a behaviour: the call ends at a position of at most MaxPos
\* and draws no nonce once MaxNonce nonces are out
Bounded ==
    /\ position' <= MaxPos
    /\ nonceCtr' = nonceCtr \/ nonceCtr' <= MaxNonce

\* one handle on a fresh file: Write, Seek and Read
Next ==
    \/ \E p \in Payloads : Write(p) /\ Bounded
    \/ \E len \in ReadLens : Read(len) /\ Bounded
    \/ \E offset \in SeekOffsets, whence \in 0..3 : Seek(offset, whence) /\ Bounded

Spec == Init /\ [][Next]_vars

\* a file through its life: written, synced, closed, reopened
FileNext ==
    \/ \E p \in Payloads : Write(p) /\ Bounded
    \/ \E len \in ReadLens : Read(len) /\ Bounded
    \/ \E offset \in SeekOffsets, whence \in 0..3 : Seek(offset, whence) /\ Bounded
    \/ Sync /\ Bounded
    \/ Close /\ Bounded
    \/ \E size \in 0..MaxPos : Truncate(size) /\ Bounded
    \/ Reopen

FileSpec == Init /\ [][FileNext]_vars

\* every call that writes chunks (WriteAt for the writes at earlier
\* positions), over a backing store that may fail
WriteNext ==
    \/ \E p \in Payloads : Write(p) /\ Bounded
    \/ \E p \in Payloads, off \in 0..MaxPos : off + Len(p) <= MaxPos /\ WriteAt(p, off) /\ Bounded
    \/ \E p \in BulkPayloads : position <= MaxBulkStart /\ nonceCtr <= MaxNonce /\ WriteBulk(p)
    \/ Sync /\ Bounded
    \/ Close /\ Bounded
    \/ \E kind \in {"hdr", "ct"} : InjectFault(kind)

WriteSpec == Init /\ [][WriteNext]_vars

\* bulk calls on a handle that is also written and read sequentially
BulkLens == {1, ChunkSize * BulkThreshold}

\* the bound of a behaviour with bulk calls: no nonce is drawn once MaxNonce
\* nonces are out
NoncesBounded == nonceCtr' = nonceCtr \/ nonceCtr' <= MaxNonce

BulkNext ==
    \/ \E p \in BulkPayloads : position <= MaxBulkStart /\ nonceCtr < MaxNonce /\ WriteBulk(p)
    \/ \E len \in BulkLens : ReadBulk(len) /\ NoncesBounded
    \/ \E p \in Payloads : Write(p) /\ Bounded
    \/ \E offset \in 0..1 : Seek(offset, 0)
    \/ Sync /\ NoncesBounded

BulkSpec == Init /\ [][BulkNext]_vars

\* a file that grows by ChunksPerWrite full chunks per Write until it is closed
LongPayload == [i \in 1..(ChunkSize * ChunksPerWrite) |-> 1]

LayoutNext ==
    \/ base.open /\ Write(LongPayload) /\ position' <= MaxChunks * ChunkSize
    \/ base.open /\ Close

LayoutSpec == Init /\ [][LayoutNext]_vars

\* ------------------------------------------------- threads on one handle
\* the public methods of a chunked file handle
Ops == {"Read", "Write", "Seek", "Sync", "Close", "Stat", "ReadAt", "WriteAt",
        "Truncate", "ReadBulk", "WriteBulk"}

\* the methods that start with cf.mu.Lock() and defer cf.mu.Unlock(); Close
\* takes the lock only inside the Sync it calls, Stat not at all
TakesLock(op) == op # "Stat"

\* thread t calls method op
CallOp(t, op) ==
    /\ thr[t].pc = "idle"
    /\ thr' = [thr EXCEPT ![t] = [op |-> op, pc |-> IF TakesLock(op) THEN "lock" ELSE "base"]]
    /\ UNCHANGED <<mu, engineVars, parVars, fsVars>>

\* cf.mu.Lock()
Lock(t) ==
    /\ thr[t].pc = "lock"
    /\ mu = 0
    /\ mu' = t
    /\ thr' = [thr EXCEPT ![t].pc = "body"]
    /\ UNCHANGED <<engineVars, parVars, fsVars>>

\* the statements of the method between Lock and Unlock (of Sync, for Close)
Body(t) ==
    /\ thr[t].pc = "body"
    /\ thr' = [thr EXCEPT ![t].pc = "unlock"]
    /\ UNCHANGED <<mu, engineVars, parVars, fsVars>>

\* the deferred cf.mu.Unlock(); Close goes on to cf.base.Close()
Unlock(t) ==
    /\ thr[t].pc = "unlock"
    /\ mu' = 0
    /\ thr' = [thr EXCEPT ![t] = IF thr[t].op = "Close" THEN [@ EXCEPT !.pc = "base"]
                                 ELSE [op |-> "none", pc |-> "idle"]]
    /\ UNCHANGED <<engineVars, parVars, fsVars>>

\* cf.base.Close() of Close, cf.base.Stat() of Stat: on the backing file,
\* with no lock held
OnBase(t) ==
    /\ thr[t].pc = "base"
    /\ base' = IF thr[t].op = "Close" THEN [base EXCEPT !.open = FALSE] ELSE base
    /\ thr' = [thr EXCEPT ![t] = [op |-> "none", pc |-> "idle"]]
    /\ UNCHANGED <<mu, position, dirty, chunkDirty, currentIdx, currentBuf, chunkIndex,
                   cache, nonceCtr, usedNonces, fault, ref, parVars, fsVars>>

ConcNext ==
    \/ \E t \in Threads, op \in Ops : CallOp(t, op)
    \/ \E t \in Threads : Lock(t)
    \/ \E t \in Threads : Body(t)
    \/ \E t \in Threads : Unlock(t)
    \/ \E t \in Threads : OnBase(t)

ConcSpec == Init /\ [][ConcNext]_vars

\* ------------------------------------- parallel encryption / decryption
\* parallelEncryptChunks and parallelDecryptChunks are the same worker pool
\* around engine.Encrypt and engine.Decrypt.  WriteBulk and ReadBulk call them
\* with at least MinChunksForParallel chunk jobs, so the pool is what runs.
NoError == [idx |-> 0, kind |-> "nil"]

NotReturned == [idx |-> 0, kind |-> "none"]

\* an errChan made without a buffer
ErrChanUnbuffered(numWorkers) == 0

\* capacity of errChan
ErrChanCap(numWorkers) == numWorkers

\* select { case errChan <- e: default: }
TrySend(ch, e, cap) == IF Len(ch.q) < cap THEN [ch EXCEPT !.q = Append(@, e)] ELSE ch

\* the pool after its workers were started, for nJobs chunk jobs and a
\* configured MaxWorkers of maxWorkers
ParStarted(nJobs, maxWorkers) ==
    LET numWorkers == Min(maxWorkers, nJobs)
    IN /\ parMain = [pc |-> "send", i |-> 1, ret |-> NotReturned]
       /\ jobChan = [q |-> <<>>, closed |-> FALSE]
       /\ errChan = [q |-> <<>>, closed |-> FALSE]
       /\ wg = numWorkers
       /\ workers = [w \in 1..numWorkers |-> [pc |-> "recv", idx |-> 0]]
       /\ chunks = [i \in 1..nJobs |-> FALSE]
       /\ raised = [all |-> {}, first |-> NoError]

ParInit ==
    /\ EngineInit
    /\ ConcIdle
    /\ FsIdle
    /\ \E nJobs \in MinChunksForParallel..MaxJobs, maxWorkers \in 1..MaxWorkers :
          ParStarted(nJobs, maxWorkers)

\* a jobChan with room for one job only
JobChanSingle(nJobs) == 1

\* capacity of jobChan
JobChanCap(nJobs) == nJobs

\* jobChan <- i, for each job in turn; the send blocks while jobChan is full
SendJob ==
    /\ parMain.pc = "send"
    /\ Len(jobChan.q) < JobChanCap(Len(chunks))
    /\ jobChan' = [jobChan EXCEPT !.q = Append(@, parMain.i)]
    /\ parMain' = IF parMain.i = Len(chunks) THEN [parMain EXCEPT !.pc = "close"]
                  ELSE [parMain EXCEPT !.i = @ + 1]
    /\ UNCHANGED <<errChan, wg, workers, chunks, raised, engineVars, concVars, fsVars>>

\* close(jobChan)
CloseJobChan ==
    /\ parMain.pc = "close"
    /\ jobChan' = [jobChan EXCEPT !.closed = TRUE]
    /\ parMain' = [parMain EXCEPT !.pc = "wait"]
    /\ UNCHANGED <<errChan, wg, workers, chunks, raised, engineVars, concVars, fsVars>>

\* for idx := range jobChan: the next job, or the end of the loop
Receive(w) ==
    /\ workers[w].pc = "recv"
    /\ Len(jobChan.q) > 0 \/ jobChan.closed
    /\ IF Len(jobChan.q) > 0
       THEN /\ workers' = [workers EXCEPT ![w] = [pc |-> "call", idx |-> Head(jobChan.q)]]
            /\ jobChan' = [jobChan EXCEPT !.q = Tail(@)]
       ELSE /\ workers' = [workers EXCEPT ![w].pc = "exit"]
            /\ UNCHANGED jobChan
    /\ UNCHANGED <<parMain, errChan, wg, chunks, raised, engineVars, concVars, fsVars>>

\* cf.engine.Encrypt / cf.engine.Decrypt on the worker's job: it returns the
\* output, returns an error, or panics
EngineCall(w, outcome) ==
    /\ workers[w].pc = "call"
    /\ workers' = [workers EXCEPT ![w].pc = CASE outcome = "ok" -> "recv"
                                              [] outcome = "err" -> "failed"
                                              [] OTHER -> "panic"]
    /\ chunks' = IF outcome = "ok" THEN [chunks EXCEPT ![workers[w].idx] = TRUE] ELSE chunks
    /\ raised' = IF outcome = "ok" THEN raised
                 ELSE [raised EXCEPT !.all = @ \cup {[idx |-> workers[w].idx, kind |-> outcome]}]
    /\ UNCHANGED <<parMain, jobChan, errChan, wg, engineVars, concVars, fsVars>>

\* the worker's error e goes to errChan if there is room, and the worker returns
Surface(w, e) ==
    LET ch == TrySend(errChan, e, ErrChanCap(Len(workers)))
    IN /\ errChan' = ch
       /\ raised' = IF raised.first = NoError /\ ch # errChan
                    THEN [raised EXCEPT !.first = e] ELSE raised
       /\ workers' = [workers EXCEPT ![w].pc = "exit"]
       /\ UNCHANGED <<parMain, jobChan, wg, chunks, engineVars, concVars, fsVars>>

\* if err != nil { select { case errChan <- err: default: }; return }
ReportError(w) ==
    /\ workers[w].pc = "failed"
    /\ Surface(w, [idx |-> workers[w].idx, kind |-> "err"])

\* the deferred recover(): the panic becomes an error
Recover(w) ==
    /\ workers[w].pc = "panic"
    /\ Surface(w, [idx |-> workers[w].idx, kind |-> "panic"])

\* the deferred wg.Done()
WorkerDone(w) ==
    /\ workers[w].pc = "exit"
    /\ wg' = wg - 1
    /\ workers' = [workers EXCEPT ![w].pc = "gone"]
    /\ UNCHANGED <<parMain, jobChan, errChan, chunks, raised, engineVars, concVars, fsVars>>

\* wg.Wait()
Wait ==
    /\ parMain.pc = "wait"
    /\ wg = 0
    /\ parMain' = [parMain EXCEPT !.pc = "closeerr"]
    /\ UNCHANGED <<jobChan, errChan, wg, workers, chunks, raised, engineVars, concVars, fsVars>>

\* close(errChan)
CloseErrChan ==
    /\ parMain.pc = "closeerr"
    /\ errChan' = [errChan EXCEPT !.closed = TRUE]
    /\ parMain' = [parMain EXCEPT !.pc = "select"]
    /\ UNCHANGED <<jobChan, wg, workers, chunks, raised, engineVars, concVars, fsVars>>

\* select { case err := <-errChan: return err; default: return nil }: a
\* closed and empty channel delivers the zero value, nil
Return ==
    /\ parMain.pc = "select"
    /\ parMain' = [parMain EXCEPT !.pc = "done",
                                  !.ret = IF Len(errChan.q) > 0 THEN Head(errChan.q) ELSE NoError]
    /\ errChan' = IF Len(errChan.q) > 0 THEN [errChan EXCEPT !.q = Tail(@)] ELSE errChan
    /\ UNCHANGED <<jobChan, wg, workers, chunks, raised, engineVars, concVars, fsVars>>

ParNext ==
    \/ SendJob
    \/ CloseJobChan
    \/ \E w \in DOMAIN workers : Receive(w)
    \/ \E w \in DOMAIN workers, outcome \in {"ok", "err", "panic"} : EngineCall(w, outcome)
    \/ \E w \in DOMAIN workers : ReportError(w)
    \/ \E w \in DOMAIN workers : Recover(w)
    \/ \E w \in DOMAIN workers : WorkerDone(w)
    \/ Wait
    \/ CloseErrChan
    \/ Return

ParSpec == ParInit /\ [][ParNext]_vars

\* the Go scheduler runs a goroutine that can take a step, and an engine call
\* returns or panics
ParFairSpec == ParSpec /\ WF_vars(ParNext)

\* ------------------------------------- the filesystem: keys and rotation
\* The files of the base filesystem as EncryptFS writes and opens them.  A
\* chunked file is taken to read back what was written into it.
Plaintexts == {[i \in 1..n |-> v] : n \in 0..MaxFileLen, v \in 1..MaxByte}

\* the key provider lists of the configurations: one provider, or two
\* different ones in either order
ProviderLists == {<<k>> : k \in Keys} \cup ({<<k, l>> : k, l \in Keys} \ {<<k, k>> : k \in Keys})

Configs == [providers : ProviderLists, chunked : BOOLEAN]

\* MultiKeyProvider.DeriveKey, and the provider of a plain configuration
Primary(cfg) == cfg.providers[1]

\* a handle: the key of its engine, and for a single-blob file the plaintext
NoHandle == [chunked |-> FALSE, key |-> 0, plaintext |-> <<>>]

\* engine.Decrypt(header.Nonce, ciphertext) of the bytes behind the file
\* header authenticates iff they are one blob sealed under this key
Decrypts(key, f) == f.kind = "blob" /\ f.key = key

\* the loop of loadFile over the providers from the i-th on: the first key
\* that decrypts, 0 when none does
RECURSIVE TryProviders(_, _, _)
TryProviders(providers, f, i) ==
    IF i > Len(providers) THEN 0
    ELSE IF Decrypts(providers[i], f) THEN providers[i]
    ELSE TryProviders(providers, f, i + 1)

loadFile(f, cfg) ==
    LET key == TryProviders(cfg.providers, f, 1)
    IN IF key = 0 THEN [err |-> "auth", h |-> NoHandle, f |-> f]
       ELSE [err |-> OK, h |-> [chunked |-> FALSE, key |-> key, plaintext |-> f.data], f |-> f]

\* newEncryptedFile: a file of size 0 gets a new header under the primary key
newEncryptedFile(f, cfg) ==
    IF f.kind = "empty"
    THEN [err |-> OK, h |-> [chunked |-> FALSE, key |-> Primary(cfg), plaintext |-> <<>>], f |-> f]
    ELSE loadFile(f, cfg)

\* loadChunkedFile: the file header is read, the key derived with
\* keyProvider.DeriveKey, the chunk index read; nothing is decrypted.  The
\* bytes of a single-blob file are no chunk index.
loadChunkedFile(f, cfg) ==
    IF f.kind = "blob" THEN [err |-> "format", h |-> NoHandle, f |-> f]
    ELSE [err |-> OK, h |-> [chunked |-> TRUE, key |-> Primary(cfg), plaintext |-> <<>>], f |-> f]

\* newChunkedFile: a file of size 0 gets its headers written at once, which
\* a file opened read-only refuses
newChunkedFile(f, cfg, flag) ==
    IF f.kind = "empty"
    THEN IF flag = "rdonly" THEN [err |-> "io", h |-> NoHandle, f |-> f]
         ELSE [err |-> OK, h |-> [chunked |-> TRUE, key |-> Primary(cfg), plaintext |-> <<>>],
               f |-> [kind |-> "chunked", key |-> Primary(cfg), data |-> <<>>]]
    ELSE loadChunkedFile(f, cfg)

\* EncryptFS.OpenFile on a path that holds f; flag is "rdonly" (Open) or
\* "create" (Create: O_RDWR|O_CREATE|O_TRUNC)
OpenFile(f, cfg, flag) ==
    IF f.kind = "dir" \/ (f.kind = "none" /\ flag = "rdonly")
    THEN [err |-> "base", h |-> NoHandle, f |-> f]
    ELSE LET b == IF flag = "create" THEN EmptyFile ELSE f
         IN IF cfg.chunked THEN newChunkedFile(b, cfg, flag) ELSE newEncryptedFile(b, cfg)

\* io.ReadAll on the handle h of the file f
ReadAll(h, f) ==
    IF ~h.chunked THEN [err |-> OK, data |-> h.plaintext]
    ELSE IF f.data = <<>> THEN [err |-> OK, data |-> <<>>]
    ELSE IF h.key = f.key THEN [err |-> OK, data |-> f.data]
    ELSE [err |-> "auth", data |-> <<>>]

\* Open, ReadAll, Close
ReadFile(f, cfg) ==
    LET o == OpenFile(f, cfg, "rdonly")
    IN IF o.err # OK THEN [err |-> o.err, data |-> <<>>] ELSE ReadAll(o.h, o.f)

\* Write(content) and Close on the handle h of a file just created
WriteClose(h, content) ==
    [kind |-> IF h.chunked THEN "chunked" ELSE "blob", key |-> h.key, data |-> content]

\* the same configuration with one key provider in place of its providers
WithKey(cfg, key) == [cfg EXCEPT !.providers = <<key>>]

\* what RotateAllKeys does when ReEncrypt of a file leaves off with an error
AbortWalk == "abort"

\* return nil // Continue walking
OnReEncryptError == "continue"

\* the end of ReEncrypt with result e: the call returns, or the walk of
\* RotateAllKeys records the result and goes on
Finished(e) ==
    IF rekey.op = "ReEncrypt" THEN [rekey EXCEPT !.pc = "returned", !.ret = e]
    ELSE LET r == [rekey EXCEPT !.rotated = IF e = OK THEN @ + 1 ELSE @,
                                !.failed = IF e = OK THEN @ ELSE @ + 1,
                                !.tried = @ \cup {rekey.path}]
         IN IF e # OK /\ OnReEncryptError = "abort"
            THEN [r EXCEPT !.pc = "returned", !.ret = "errors"]
            ELSE [r EXCEPT !.pc = "walk", !.i = @ + 1]

\* Create, Write and Close of a file through a filesystem configured with cfg
PutFile(path, cfg, content) ==
    /\ rekey.pc = "idle"
    /\ LET o == OpenFile(files[path], cfg, "create")
       IN /\ o.err = OK
          /\ files' = [files EXCEPT ![path] = WriteClose(o.h, content)]
    /\ UNCHANGED <<rekey, engineVars, concVars, parVars, catVars>>

Mkdir(path) ==
    /\ rekey.pc = "idle"
    /\ files[path].kind = "none"
    /\ files' = [files EXCEPT ![path] = Dir]
    /\ UNCHANGED <<rekey, engineVars, concVars, parVars, catVars>>

\* a call of e.ReEncrypt(path, opts) on a filesystem e configured with cfg
ReEncrypt(path, cfg, newKey, dryRun) ==
    /\ rekey.pc \in {"idle", "returned"}
    /\ rekey' = [IdleJob EXCEPT !.op = "ReEncrypt", !.pc = "open", !.cfg = cfg,
                                !.newKey = newKey, !.dryRun = dryRun, !.path = path,
                                !.before = files[path]]
    /\ UNCHANGED <<files, engineVars, concVars, parVars, catVars>>

\* what filepath.Walk finds below the root when the base filesystem is the
\* directory tree of the operating system
TreeOf(fs) ==
    [p \in Paths |-> IF fs[p].kind = "none" THEN "none"
                     ELSE IF fs[p].kind = "dir" THEN "dir" ELSE "file"]

\* filepath.Walk walks the directory tree of the operating system with
\* os.Lstat, whatever base filesystem e wraps: a tree that is not the base
\* filesystem's, with one regular file
HostTree == [p \in Paths |-> IF p = 1 THEN "file" ELSE "none"]

\* a call of e.RotateAllKeys(root, opts); osBase: the base filesystem is the
\* directory tree of the operating system
RotateAllKeys(cfg, newKey, dryRun, osBase) ==
    /\ rekey.pc \in {"idle", "returned"}
    /\ rekey' = [IdleJob EXCEPT !.op = "RotateAllKeys", !.pc = "walk", !.cfg = cfg,
                                !.newKey = newKey, !.dryRun = dryRun, !.i = 1,
                                !.tree = IF osBase THEN TreeOf(files) ELSE HostTree]
    /\ UNCHANGED <<files, engineVars, concVars, parVars, catVars>>

\* filepath.Walk calls the function for the next entry (lstat of the entry
\* worked or not), or the walk is over and RotateAllKeys returns
Walk(lstat) ==
    /\ rekey.pc = "walk"
    /\ rekey' =
         IF rekey.i > NumFiles
         THEN [rekey EXCEPT !.pc = "returned",
                            !.ret = IF rekey.failed > 0 THEN "errors" ELSE OK]
         ELSE IF rekey.tree[rekey.i] = "none" THEN [rekey EXCEPT !.i = @ + 1]
         ELSE IF ~lstat THEN [rekey EXCEPT !.failed = @ + 1, !.i = @ + 1,
                                           !.visited = @ \cup {rekey.i}]
         ELSE IF rekey.tree[rekey.i] = "dir" THEN [rekey EXCEPT !.i = @ + 1]
         ELSE [rekey EXCEPT !.pc = "open", !.path = rekey.i, !.before = files[rekey.i],
                            !.content = <<>>, !.visited = @ \cup {rekey.i}]
    /\ UNCHANGED <<files, engineVars, concVars, parVars, catVars>>

\* ReEncrypt: e.Open(name), io.ReadAll(file), file.Close(); the return of a
\* dry run
ReadOld ==
    /\ rekey.pc = "open"
    /\ LET r == ReadFile(files[rekey.path], rekey.cfg)
       IN rekey' = IF r.err # OK THEN Finished(r.err)
                   ELSE IF rekey.dryRun THEN [Finished(OK) EXCEPT !.content = r.data]
                   ELSE [rekey EXCEPT !.pc = "create", !.content = r.data]
    /\ UNCHANGED <<files, engineVars, concVars, parVars, catVars>>

\* ReEncrypt: New(e.base, newConfig) and newFS.Create(name); the base
\* filesystem creates and truncates the file, or fails
CreateNew(ok) ==
    /\ rekey.pc = "create"
    /\ IF ok
       THEN /\ files' = [files EXCEPT ![rekey.path] = EmptyFile]
            /\ rekey' = [rekey EXCEPT !.pc = "write"]
       ELSE /\ rekey' = Finished("base")
            /\ UNCHANGED files
    /\ UNCHANGED <<engineVars, concVars, parVars, catVars>>

\* ReEncrypt: newFile.Write(content) and newFile.Close(); the flush of Close
\* writes header and ciphertext under the new key, or the base file fails
WriteNew(ok) ==
    /\ rekey.pc = "write"
    /\ LET o == newEncryptedFile(files[rekey.path], [providers |-> <<rekey.newKey>>, chunked |-> FALSE])
       IN IF ok
          THEN /\ files' = [files EXCEPT ![rekey.path] = WriteClose(o.h, rekey.content)]
               /\ rekey' = Finished(OK)
          ELSE /\ rekey' = Finished("io")
               /\ UNCHANGED files
    /\ UNCHANGED <<engineVars, concVars, parVars, catVars>>

FsNext ==
    \/ \E path \in Paths, cfg \in Configs, content \in Plaintexts : PutFile(path, cfg, content)
    \/ \E path \in Paths : Mkdir(path)
    \/ \E path \in Paths, cfg \in Configs, newKey \in Keys, dryRun \in BOOLEAN :
          ReEncrypt(path, cfg, newKey, dryRun)
    \/ \E cfg \in Configs, newKey \in Keys, dryRun \in BOOLEAN, osBase \in BOOLEAN :
          RotateAllKeys(cfg, newKey, dryRun, osBase)
    \/ \E lstat \in BOOLEAN : Walk(lstat)
    \/ ReadOld
    \/ \E ok \in BOOLEAN : CreateNew(ok)
    \/ \E ok \in BOOLEAN : WriteNew(ok)

FsSpec == Init /\ [][FsNext]_vars

\* ------------------------------------------- the catalog of random filenames
Tokens == 1..NumTokens
Names == 1..NumNames

\* m[k] = v of a Go map
MapPut(m, k, v) == [x \in DOMAIN m \cup {k} |-> IF x = k THEN v ELSE m[x]]

\* json decoding into a map that is not nil keeps the entries it has and
\* sets those of the document
MapMerge(m, doc) == [x \in DOMAIN m \cup DOMAIN doc |-> IF x \in DOMAIN doc THEN doc[x] ELSE m[x]]

\* FilenameMetadata.Add
MetadataAdd(m, encrypted, plaintext) ==
    [Mappings |-> MapPut(m.Mappings, encrypted, plaintext),
     Reverse |-> MapPut(m.Reverse, plaintext, encrypted)]

\* the reverse maps the loop of Load can build from mappings: the entry of
\* a plaintext is the encrypted name the range loop met last
RebuiltReverse(mappings) ==
    {r \in [{mappings[e] : e \in DOMAIN mappings} -> Tokens] :
        \A p \in DOMAIN r : r[p] \in DOMAIN mappings /\ mappings[r[p]] = p}

\* the reverse maps there are
ReverseMaps == UNION {[D -> Tokens] : D \in SUBSET Names}

\* metadata.Add(encrypted, plaintext) called on the catalog
Add(encrypted, plaintext) ==
    /\ catalog' = MetadataAdd(catalog, encrypted, plaintext)
    /\ UNCHANGED <<metaFile, handles, files, rekey, engineVars, concVars, parVars, encVars, pathOp, restVars>>

\* randomFilenameEncryptor.EncryptFilename(plaintext): the known name, or a
\* new UUID id that is entered in the catalog
EncryptFilename(plaintext, id) ==
    /\ IF plaintext \in DOMAIN catalog.Reverse
       THEN UNCHANGED catalog
       ELSE /\ id \notin DOMAIN catalog.Mappings
            /\ catalog' = MetadataAdd(catalog, id, plaintext)
    /\ UNCHANGED <<metaFile, handles, files, rekey, engineVars, concVars, parVars, encVars, pathOp, restVars>>

\* FilenameMetadata.Save: the file is created and both maps are encoded, or
\* Create fails
Save(ok) ==
    /\ metaFile' = IF ok THEN [exists |-> TRUE, Mappings |-> catalog.Mappings,
                               Reverse |-> catalog.Reverse]
                   ELSE metaFile
    /\ UNCHANGED <<catalog, handles, files, rekey, engineVars, concVars, parVars, encVars, pathOp, restVars>>

\* FilenameMetadata.Load: no file leaves the catalog alone; else the maps
\* are decoded and the reverse map is rebuilt from the mappings
Load(reverse) ==
    /\ IF ~metaFile.exists
       THEN UNCHANGED catalog
       ELSE LET mappings == MapMerge(catalog.Mappings, metaFile.Mappings)
            IN /\ reverse \in RebuiltReverse(mappings)
               /\ catalog' = [Mappings |-> mappings, Reverse |-> reverse]
    /\ UNCHANGED <<metaFile, handles, files, rekey, engineVars, concVars, parVars, encVars, pathOp, restVars>>

\* NewFilenameEncryptor: a new catalog, loaded from the metadata file
NewFilenameEncryptor(reverse) ==
    /\ IF ~metaFile.exists
       THEN catalog' = NewFilenameMetadata
       ELSE /\ reverse \in RebuiltReverse(metaFile.Mappings)
            /\ catalog' = [Mappings |-> metaFile.Mappings, Reverse |-> reverse]
    /\ UNCHANGED <<metaFile, handles, files, rekey, engineVars, concVars, parVars, encVars, pathOp, restVars>>

CatNext ==
    \/ \E encrypted \in Tokens, plaintext \in Names : Add(encrypted, plaintext)
    \/ \E plaintext \in Names, id \in Tokens : EncryptFilename(plaintext, id)
    \/ \E ok \in BOOLEAN : Save(ok)
    \/ \E reverse \in ReverseMaps : Load(reverse)
    \/ \E reverse \in ReverseMaps : NewFilenameEncryptor(reverse)

CatSpec == Init /\ [][CatNext]_vars

\* --------------------------------------- names created through EncryptFS
\* the catalogs NewFilenameEncryptor can build from the metadata file
LoadedCatalogs ==
    IF ~metaFile.exists THEN {NewFilenameMetadata}
    ELSE {[Mappings |-> metaFile.Mappings, Reverse |-> r] : r \in RebuiltReverse(metaFile.Mappings)}

\* EncryptFS.Create(name) in random filename mode: translatePath encrypts
\* the name (a token is minted for a new one) and the base file is opened
CreateName(plaintext, id) ==
    /\ handles[plaintext].st # "open"
    /\ IF plaintext \in DOMAIN catalog.Reverse
       THEN UNCHANGED catalog
       ELSE /\ id \notin DOMAIN catalog.Mappings
            /\ catalog' = MetadataAdd(catalog, id, plaintext)
    /\ handles' = [handles EXCEPT ![plaintext] = [st |-> "open", token |-> catalog'.Reverse[plaintext]]]
    /\ UNCHANGED <<metaFile, files, rekey, engineVars, concVars, parVars, encVars, pathOp, restVars>>

\* Sync of the file created under the name: the file's own data is flushed
\* and the base file synced; the catalog is not written
SyncName(plaintext) ==
    /\ handles[plaintext].st = "open"
    /\ handles' = [handles EXCEPT ![plaintext].st = "synced"]
    /\ UNCHANGED <<catalog, metaFile, files, rekey, engineVars, concVars, parVars, encVars, pathOp, restVars>>

\* Close of the file created under the name: flush and close of the base
\* file; the catalog is not written
CloseName(plaintext) ==
    /\ handles[plaintext].st \in {"open", "synced"}
    /\ handles' = [handles EXCEPT ![plaintext].st = "closed"]
    /\ UNCHANGED <<catalog, metaFile, files, rekey, engineVars, concVars, parVars, encVars, pathOp, restVars>>

\* New(base, config) on the same backing store with the same MetadataPath
NewFS ==
    /\ catalog' \in LoadedCatalogs
    /\ UNCHANGED <<metaFile, handles, files, rekey, engineVars, concVars, parVars, encVars, pathOp, restVars>>

NameNext ==
    \/ \E plaintext \in Names, id \in Tokens : CreateName(plaintext, id)
    \/ \E plaintext \in Names : SyncName(plaintext)
    \/ \E plaintext \in Names : CloseName(plaintext)
    \/ NewFS

NameSpec == Init /\ [][NameNext]_vars

\* ------------------------- EncryptFilename of one instance, from threads
\* r.mu.Lock() lets one thread at a time into EncryptFilename
LockIgnored == FALSE
LockExcludes == TRUE

\* a thread calls r.EncryptFilename(plaintext)
EncCall(t, plaintext) ==
    /\ encThr[t].pc = "idle"
    /\ encThr' = [encThr EXCEPT ![t] = [pc |-> "lock", name |-> plaintext, result |-> 0]]
    /\ UNCHANGED <<encMu, issued, catalog, metaFile, handles, files, rekey, engineVars, concVars, parVars, pathOp, restVars>>

\* r.mu.Lock()
EncLock(t) ==
    /\ encThr[t].pc = "lock"
    /\ LockExcludes => encMu = 0
    /\ encMu' = t
    /\ encThr' = [encThr EXCEPT ![t].pc = "lookup"]
    /\ UNCHANGED <<issued, catalog, metaFile, handles, files, rekey, engineVars, concVars, parVars, pathOp, restVars>>

\* r.metadata.GetReverse(plaintext): the token the name has, if any
EncLookup(t) ==
    /\ encThr[t].pc = "lookup"
    /\ encThr' = IF encThr[t].name \in DOMAIN catalog.Reverse
                 THEN [encThr EXCEPT ![t].pc = "unlock", ![t].result = catalog.Reverse[encThr[t].name]]
                 ELSE [encThr EXCEPT ![t].pc = "mint"]
    /\ UNCHANGED <<encMu, issued, catalog, metaFile, handles, files, rekey, engineVars, concVars, parVars, pathOp, restVars>>

\* uuid.New() and r.metadata.Add(encrypted, plaintext)
EncMint(t, id) ==
    /\ encThr[t].pc = "mint"
    /\ id \notin DOMAIN catalog.Mappings
    /\ catalog' = MetadataAdd(catalog, id, encThr[t].name)
    /\ encThr' = [encThr EXCEPT ![t].pc = "unlock", ![t].result = id]
    /\ UNCHANGED <<encMu, issued, metaFile, handles, files, rekey, engineVars, concVars, parVars, pathOp, restVars>>

\* the deferred r.mu.Unlock() and the return of the token
EncUnlock(t) ==
    /\ encThr[t].pc = "unlock"
    /\ encMu' = IF encMu = t THEN 0 ELSE encMu
    /\ issued' = issued \cup {<<encThr[t].name, encThr[t].result>>}
    /\ encThr' = [encThr EXCEPT ![t].pc = "idle"]
    /\ UNCHANGED <<catalog, metaFile, handles, files, rekey, engineVars, concVars, parVars, pathOp, restVars>>

EncNext ==
    \/ \E t \in 1..NumThreads, plaintext \in Names : EncCall(t, plaintext)
    \/ \E t \in 1..NumThreads : EncLock(t)
    \/ \E t \in 1..NumThreads : EncLookup(t)
    \/ \E t \in 1..NumThreads, id \in Tokens : EncMint(t, id)
    \/ \E t \in 1..NumThreads : EncUnlock(t)

EncSpec == Init /\ [][EncNext]_vars

\* ----------------------------------------- paths in the three filename modes
\* a string is a sequence of symbols: a character, the base64 text of one
\* SIV ciphertext (of plaintext base, with the unused trailing bits pad of its
\* last character), or a UUID
Chr(c) == [kind |-> "chr", ch |-> c, base |-> <<>>, pad |-> 0, id |-> 0]
Dot == Chr(".")
Sep == Chr("/")
Uuid(id) == [kind |-> "uuid", ch |-> "", base |-> <<>>, pad |-> 0, id |-> id]

\* the strings of at most n symbols of the set syms
StringsOver(syms, n) == UNION {[1..k -> syms] : k \in 0..n}

\* plaintext paths, and the names a path component can have
PlainPaths == StringsOver({Chr("a"), Dot, Sep}, MaxPathLen)
PlainNames == StringsOver({Chr("a"), Dot}, MaxPathLen)

\* SIVEngine.Encrypt: the SIV and the CTR ciphertext are functions of the
\* key and the plaintext alone
SivEncrypt(plaintext) == [siv |-> plaintext, ct |-> plaintext]
\* SIVEngine.Decrypt: the plaintext whose S2V is the SIV
SivDecrypt(c) == IF c.siv = c.ct THEN [err |-> OK, out |-> c.ct] ELSE [err |-> "auth", out |-> <<>>]

\* the last base64 character of 16 + n bytes has unused bits unless the
\* length is a multiple of 3
HasTrailingBits(n) == (16 + n) % 3 # 0

\* base64.URLEncoding.WithPadding(NoPadding).EncodeToString: the unused bits
\* are written as zero
B64Encode(c) == [kind |-> "b64", ch |-> "", base |-> c.ct, pad |-> 0, id |-> 0]
\* DecodeString of a string: it is base64 text of a ciphertext or not; the
\* decoder, not being Strict, does not look at the unused bits
B64Decode(str) ==
    IF Len(str) = 1 /\ str[1].kind = "b64"
    THEN [err |-> OK, out |-> SivEncrypt(str[1].base)]
    ELSE [err |-> "decode", out |-> SivEncrypt(<<>>)]

\* the base64 texts there are of the ciphertexts of names
B64Blocks ==
    {[kind |-> "b64", ch |-> "", base |-> b, pad |-> pd, id |-> 0] :
        b \in PlainNames, pd \in 0..1} \ 
    {[kind |-> "b64", ch |-> "", base |-> b, pad |-> 1, id |-> 0] :
        b \in {n \in PlainNames : ~HasTrailingBits(Len(n))}}

\* filepath.Ext of a path component: the suffix from the last dot on
RECURSIVE ExtFrom(_, _)
ExtFrom(name, i) ==
    IF i < 1 THEN <<>>
    ELSE IF name[i] = Dot THEN SubSeq(name, i, Len(name))
    ELSE ExtFrom(name, i - 1)
Ext(name) == ExtFrom(name, Len(name))

\* strings.TrimSuffix(name, ext) for a suffix ext of name
TrimSuffix(name, ext) == SubSeq(name, 1, Len(name) - Len(ext))

\* strings.Split(str, "/"): the parts between the separators
RECURSIVE SplitFrom(_, _, _, _)
SplitFrom(str, i, cur, acc) ==
    IF i > Len(str) THEN Append(acc, cur)
    ELSE IF str[i] = Sep THEN SplitFrom(str, i + 1, <<>>, Append(acc, cur))
    ELSE SplitFrom(str, i + 1, Append(cur, str[i]), acc)
Split(str) == SplitFrom(str, 1, <<>>, <<>>)

\* strings.Join(parts, "/")
RECURSIVE JoinFrom(_, _)
JoinFrom(parts, i) ==
    IF i > Len(parts) THEN <<>>
    ELSE IF i = Len(parts) THEN parts[i]
    ELSE parts[i] \o <<Sep>> \o JoinFrom(parts, i + 1)
Join(parts) == JoinFrom(parts, 1)

\* "", "." and ".." pass through
Reserved(part) == part = <<>> \/ part = <<Dot>> \/ part = <<Dot, Dot>>

\* deterministicFilenameEncryptor.EncryptFilename
DetEncryptFilename(preserve, plaintext) ==
    IF Reserved(plaintext) THEN plaintext
    ELSE LET ext == IF preserve THEN Ext(plaintext) ELSE <<>>
             stem == TrimSuffix(plaintext, ext)
             encoded == <<B64Encode(SivEncrypt(stem))>>
         IN IF preserve /\ ext # <<>> THEN encoded \o ext ELSE encoded

\* deterministicFilenameEncryptor.DecryptFilename
DetDecryptFilename(preserve, ciphertext) ==
    IF Reserved(ciphertext) THEN [err |-> OK, out |-> ciphertext]
    ELSE LET ext == IF preserve THEN Ext(ciphertext) ELSE <<>>
             encoded == TrimSuffix(ciphertext, ext)
             data == B64Decode(encoded)
             plaintext == SivDecrypt(data.out)
         IN IF data.err # OK THEN [err |-> data.err, out |-> <<>>]
            ELSE IF plaintext.err # OK THEN [err |-> plaintext.err, out |-> <<>>]
            ELSE [err |-> OK, out |-> IF preserve /\ ext # <<>> THEN plaintext.out \o ext
                                      ELSE plaintext.out]

\* randomFilenameEncryptor.EncryptFilename on the catalog cat, id being the
\* UUID drawn when the name has no token: the name and the catalog after
RandEncryptFilename(cat, plaintext, id) ==
    IF Reserved(plaintext) THEN [out |-> plaintext, cat |-> cat, minted |-> FALSE]
    ELSE IF plaintext \in DOMAIN cat.Reverse
         THEN [out |-> cat.Reverse[plaintext], cat |-> cat, minted |-> FALSE]
         ELSE [out |-> <<Uuid(id)>>, cat |-> MetadataAdd(cat, <<Uuid(id)>>, plaintext),
               minted |-> TRUE]

\* randomFilenameEncryptor.DecryptFilename
RandDecryptFilename(cat, ciphertext) ==
    IF Reserved(ciphertext) THEN [err |-> OK, out |-> ciphertext]
    ELSE IF ciphertext \in DOMAIN cat.Mappings
         THEN [err |-> OK, out |-> cat.Mappings[ciphertext]]
         ELSE [err |-> "nomapping", out |-> <<>>]

\* the loop of EncryptPath over the parts from the i-th on; ids are the
\* UUIDs uuid.New() returns, in order, n of them drawn so far
RECURSIVE EncryptParts(_, _, _, _, _, _, _)
EncryptParts(mode, preserve, cat, parts, i, ids, n) ==
    IF i > Len(parts) THEN [out |-> <<>>, cat |-> cat, fresh |-> TRUE]
    ELSE IF mode = "random"
    THEN LET id == IF n < Len(ids) THEN ids[n + 1] ELSE 0
             r == RandEncryptFilename(cat, parts[i], id)
             rest == EncryptParts(mode, preserve, r.cat, parts, i + 1, ids,
                                  IF r.minted THEN n + 1 ELSE n)
         IN [out |-> <<r.out>> \o rest.out, cat |-> rest.cat,
             fresh |-> rest.fresh /\ (r.minted => id # 0 /\ <<Uuid(id)>> \notin DOMAIN cat.Mappings)]
    ELSE LET rest == EncryptParts(mode, preserve, cat, parts, i + 1, ids, n)
             e == IF mode = "deterministic" THEN DetEncryptFilename(preserve, parts[i])
                  ELSE parts[i]
         IN [out |-> <<e>> \o rest.out, cat |-> cat, fresh |-> rest.fresh]

\* EncryptPath of the mode's encryptor
EncryptPath(mode, preserve, cat, plaintext, ids) ==
    IF mode = "none" \/ plaintext = <<>> \/ plaintext = <<Dot>>
    THEN [out |-> plaintext, cat |-> cat, fresh |-> TRUE]
    ELSE LET r == EncryptParts(mode, preserve, cat, Split(plaintext), 1, ids, 0)
         IN [out |-> Join(r.out), cat |-> r.cat, fresh |-> r.fresh]

\* the loop of DecryptPath over the parts from the i-th on
RECURSIVE DecryptParts(_, _, _, _, _)
DecryptParts(mode, preserve, cat, parts, i) ==
    IF i > Len(parts) THEN [err |-> OK, out |-> <<>>]
    ELSE LET d == IF mode = "deterministic" THEN DetDecryptFilename(preserve, parts[i])
                  ELSE RandDecryptFilename(cat, parts[i])
         IN IF d.err # OK THEN [err |-> d.err, out |-> <<>>]
            ELSE LET rest == DecryptParts(mode, preserve, cat, parts, i + 1)
                 IN IF rest.err # OK THEN rest
                    ELSE [err |-> OK, out |-> <<d.out>> \o rest.out]

\* DecryptPath of the mode's encryptor
DecryptPath(mode, preserve, cat, ciphertext) ==
    IF mode = "none" \/ ciphertext = <<>> \/ ciphertext = <<Dot>>
    THEN [err |-> OK, out |-> ciphertext]
    ELSE LET r == DecryptParts(mode, preserve, cat, Split(ciphertext), 1)
         IN IF r.err # OK THEN r ELSE [err |-> OK, out |-> Join(r.out)]

\* the UUIDs one call can draw
IdLists == [1..2 -> 1..PathTokens]

\* the names handed to DecryptPath: any text in mode none, characters and
\* base64 text in deterministic mode, characters and UUIDs in random mode
NoneInputs == StringsOver({Chr("a"), Dot, Sep}, MaxEncLen)
DetInputs == StringsOver({Chr("a"), Dot, Sep} \cup B64Blocks, MaxEncLen)
RandInputs == StringsOver({Chr("a"), Dot, Sep} \cup {Uuid(id) : id \in 1..PathTokens}, MaxEncLen)

\* a call of EncryptPath(plaintext)
EncryptPathCall(plaintext, ids) ==
    /\ pathOp.mode # "random" => ids = [i \in 1..2 |-> 1]
    /\ LET r == EncryptPath(pathOp.mode, pathOp.preserve, catalog, plaintext, ids)
       IN /\ r.fresh
          /\ catalog' = r.cat
          /\ pathOp' = [pathOp EXCEPT !.op = "enc", !.input = plaintext, !.output = r.out,
                                      !.err = OK]
    /\ UNCHANGED <<metaFile, handles, encVars, files, rekey, engineVars, concVars, parVars, restVars>>

\* a call of DecryptPath(ciphertext)
DecryptPathCall(mode, ciphertext) ==
    /\ pathOp.mode = mode
    /\ LET r == DecryptPath(pathOp.mode, pathOp.preserve, catalog, ciphertext)
       IN pathOp' = [pathOp EXCEPT !.op = "dec", !.input = ciphertext, !.output = r.out,
                                   !.err = r.err]
    /\ UNCHANGED <<catalog, metaFile, handles, encVars, files, rekey, engineVars, concVars, parVars, restVars>>

PathNext ==
    \/ \E plaintext \in PlainPaths, ids \in IdLists : EncryptPathCall(plaintext, ids)
    \/ \E ciphertext \in NoneInputs : DecryptPathCall("none", ciphertext)
    \/ \E ciphertext \in DetInputs : DecryptPathCall("deterministic", ciphertext)
    \/ \E ciphertext \in RandInputs : DecryptPathCall("random", ciphertext)

\* NewFilenameEncryptor: an encryptor of one of the three modes
PathInit ==
    /\ EngineInit /\ ConcIdle /\ ParIdle /\ FsStoreIdle
    /\ \E mode \in {"none", "deterministic", "random"}, preserve \in BOOLEAN :
          /\ preserve => mode = "deterministic"
          /\ pathOp = NoPathOp(mode, preserve)

PathSpec == PathInit /\ [][PathNext]_vars

\* ------------------------------------------------ the single-blob file
\* initNewFile: GenerateSalt and GenerateNonce draw random values (the
\* made-th ones), the key is derived from the salt
initNewFile(f) ==
    [f EXCEPT !.open = TRUE, !.salt = f.made + 1, !.nonce = f.made + 1, !.made = @ + 1,
              !.plaintext = <<>>, !.offset = 0, !.dirty = TRUE]

\* loadFile of the stored bytes: salt and nonce of the header, the key
\* derived from the salt, the plaintext decrypted
BlobLoadFile(f) ==
    [f EXCEPT !.open = TRUE, !.salt = f.stored.salt, !.nonce = f.stored.nonce,
              !.plaintext = f.stored.data, !.offset = 0, !.dirty = FALSE]

\* the nonce flush hands to engine.Encrypt: f.header.Nonce
HeaderNonce(f) == f.nonce

\* encryptedFile.flush: the plaintext is encrypted under the handle's key and
\* header and ciphertext are written
BlobFlush(f) ==
    IF ~f.dirty THEN f
    ELSE [f EXCEPT !.log = Append(@, <<f.salt, HeaderNonce(f)>>),
                   !.stored = [size |-> MinHeaderSize + Len(f.plaintext) + Overhead,
                               salt |-> f.salt, nonce |-> HeaderNonce(f),
                               data |-> f.plaintext],
                   !.dirty = FALSE]

\* OpenFile with O_CREATE|O_TRUNC, or of a path without content: a new file
BlobCreate ==
    /\ ~blob.open
    /\ blob.made < MaxHeaders
    /\ blob' = initNewFile([blob EXCEPT !.stored = NoBlob.stored])
    /\ UNCHANGED <<catalog, metaFile, handles, encVars, pathOp, files, rekey, engineVars, concVars, parVars, inst, unitVars>>

\* OpenFile of the stored file
BlobOpen ==
    /\ ~blob.open
    /\ blob.stored.size > 0
    /\ blob' = BlobLoadFile(blob)
    /\ UNCHANGED <<catalog, metaFile, handles, encVars, pathOp, files, rekey, engineVars, concVars, parVars, inst, unitVars>>

\* encryptedFile.Write(p)
BlobWrite(p) ==
    /\ blob.open
    /\ blob.offset + Len(p) <= MaxBlobLen
    /\ LET newSize == blob.offset + Len(p)
           grown == IF newSize > Len(blob.plaintext)
                    THEN blob.plaintext \o [i \in 1..(newSize - Len(blob.plaintext)) |-> 0]
                    ELSE blob.plaintext
       IN blob' = [blob EXCEPT !.plaintext = [i \in 1..Len(grown) |->
                                                 IF i > blob.offset /\ i <= newSize
                                                 THEN p[i - blob.offset] ELSE grown[i]],
                               !.offset = newSize, !.dirty = TRUE]
    /\ UNCHANGED <<catalog, metaFile, handles, encVars, pathOp, files, rekey, engineVars, concVars, parVars, inst, unitVars>>

\* encryptedFile.Sync
BlobSync ==
    /\ blob.open
    /\ blob.dirty => Len(blob.log) < MaxFlushes
    /\ blob' = BlobFlush(blob)
    /\ UNCHANGED <<catalog, metaFile, handles, encVars, pathOp, files, rekey, engineVars, concVars, parVars, inst, unitVars>>

\* encryptedFile.Close
BlobClose ==
    /\ blob.open
    /\ blob.dirty => Len(blob.log) < MaxFlushes
    /\ blob' = [BlobFlush(blob) EXCEPT !.open = FALSE]
    /\ UNCHANGED <<catalog, metaFile, handles, encVars, pathOp, files, rekey, engineVars, concVars, parVars, inst, unitVars>>

BlobNext ==
    \/ BlobCreate
    \/ BlobOpen
    \/ \E p \in [1..1 -> 0..MaxByte] : BlobWrite(p)
    \/ BlobSync
    \/ BlobClose

BlobSpec == Init /\ [][BlobNext]_vars

\* ------------------------------------------- Config.Validate and New
\* const minChunkSize, maxChunkSize of Config.Validate, and MinChunkSize,
\* MaxChunkSize and DefaultChunkSize of the chunk format
MinChunkSize == 64
MaxChunkSize == 16777216
DefaultChunkSize == 65536
minChunkSize == 4096
maxChunkSize == 16777216

\* the chunk sizes a Config is given: the limits and their neighbours
ChunkSizes ==
    {-1, 0, 1, MinChunkSize - 1, MinChunkSize, minChunkSize - 1, minChunkSize,
     minChunkSize + 1, DefaultChunkSize, maxChunkSize - 1, maxChunkSize,
     maxChunkSize + 1, 2147483647}

\* the Configs handed to New: key provider nil or not, cipher supported or
\* not, the filename mode ("other": no known mode), MetadataPath set or not,
\* Parallel disabled, enabled with valid limits, enabled with invalid ones
NewConfigs ==
    [KeyProvider : BOOLEAN, Cipher : BOOLEAN,
     FilenameEncryption : {"none", "random", "other"}, MetadataPath : BOOLEAN,
     ChunkSize : ChunkSizes, Parallel : {"off", "valid", "invalid"}]

\* Config.Validate: the first check that fails, OK when none does
Validate(c) ==
    IF ~c.KeyProvider THEN "keyprovider"
    ELSE IF ~c.Cipher THEN "cipher"
    ELSE IF c.FilenameEncryption = "other" THEN "filename"
    ELSE IF c.FilenameEncryption = "random" /\ ~c.MetadataPath THEN "metadata"
    ELSE IF c.ChunkSize < 0 THEN "chunksize"
    ELSE IF c.ChunkSize > 0 /\ c.ChunkSize < minChunkSize THEN "chunksize"
    ELSE IF c.ChunkSize > 0 /\ c.ChunkSize > maxChunkSize THEN "chunksize"
    ELSE IF c.Parallel = "invalid" THEN "parallel"
    ELSE IF c.Parallel = "valid" /\ c.ChunkSize = 0 THEN "parallel"
    ELSE OK

\* ValidateChunkSize of the chunk format
ValidateChunkSize(size) ==
    IF size < MinChunkSize THEN "chunksize"
    ELSE IF size > MaxChunkSize THEN "chunksize"
    ELSE OK

\* New(base, config)
NewCall(c) ==
    /\ inst.st = "none"
    /\ inst' = IF Validate(c) # OK
               THEN [inst EXCEPT !.st = "rejected", !.err = Validate(c), !.cfg = c]
               ELSE [inst EXCEPT !.st = "created", !.cfg = c]
    /\ UNCHANGED <<blob, catalog, metaFile, handles, encVars, pathOp, files, rekey, engineVars, concVars, parVars, unitVars>>

\* OpenFile on the instance: a chunk engine of uint32(config.ChunkSize)
\* when ChunkSize > 0, the single-blob file otherwise
OpenCall ==
    /\ inst.st = "created"
    /\ inst' = IF inst.cfg.ChunkSize > 0
               THEN LET chunkSize == inst.cfg.ChunkSize
                    IN IF ValidateChunkSize(chunkSize) # OK
                       THEN [inst EXCEPT !.st = "failed", !.err = ValidateChunkSize(chunkSize)]
                       ELSE [inst EXCEPT !.st = "chunked", !.engineChunkSize = chunkSize]
               ELSE [inst EXCEPT !.st = "blob"]
    /\ UNCHANGED <<blob, catalog, metaFile, handles, encVars, pathOp, files, rekey, engineVars, concVars, parVars, unitVars>>

NewNext ==
    \/ \E c \in NewConfigs : NewCall(c)
    \/ OpenCall

NewSpec == Init /\ [][NewNext]_vars

\* ------------------------------------------- ChunkIndexHeader lookups
\* index.AddChunk(0, size), as the tests build an index; the result of an
\* earlier lookup is dropped
FindAddChunk(size) ==
    /\ ChunkCount(found.h) < MaxFindChunks
    /\ found' = [NoFound EXCEPT !.h = AddChunk(found.h, 0, size)]
    /\ UNCHANGED <<engineVars, concVars, parVars, files, rekey, catalog, metaFile,
                   handles, encVars, pathOp, blob, inst, chunkCache, twins>>

\* index.FindChunkForOffset(offset)
FindCall(offset) ==
    /\ found' = [found EXCEPT !.called = TRUE, !.offset = offset,
                              !.result = FindChunkForOffset(found.h, offset)]
    /\ UNCHANGED <<engineVars, concVars, parVars, files, rekey, catalog, metaFile,
                   handles, encVars, pathOp, blob, inst, chunkCache, twins>>

FindOffsets == -1..(MaxFindChunks * MaxFindSize + 1)

FindNext ==
    \/ \E size \in 0..MaxFindSize : FindAddChunk(size)
    \/ \E offset \in FindOffsets : FindCall(offset)

FindSpec == Init /\ [][FindNext]_vars

\* ------------------------------------------------- the chunk cache
\* sequence s without key
Without(s, key) == SelectSeq(s, LAMBDA k : k # key)

\* cache.Get(key) in ensureChunkLoaded: a copy of the entry on a hit; the
\* cache itself stays as it is
CacheGet(key) ==
    /\ chunkCache' = [chunkCache EXCEPT
                        !.recent = IF CacheHas(chunkCache.c, key)
                                   THEN Append(Without(@, key), key) ELSE @,
                        !.evicted = {}, !.oldest = {}]
    /\ UNCHANGED <<engineVars, concVars, parVars, files, rekey, catalog, metaFile,
                   handles, encVars, pathOp, blob, inst, found, twins>>

\* cache.Put(key, data) in ensureChunkLoaded, after a Get that missed and a
\* read of the chunk from the backing file
CachePutCall(key) ==
    /\ ~CacheHas(chunkCache.c, key)
    /\ LET c1   == CachePut(chunkCache.c, key, <<1>>)
           gone == DOMAIN chunkCache.c.cache \ DOMAIN c1.cache
       IN chunkCache' =
            [c |-> c1,
             recent |-> Append(SelectSeq(chunkCache.recent, LAMBDA k : k \notin gone), key),
             next |-> IF key = chunkCache.next THEN key + 1 ELSE chunkCache.next,
             evicted |-> gone,
             oldest |-> IF gone = {} THEN {} ELSE {Head(chunkCache.recent)}]
    /\ UNCHANGED <<engineVars, concVars, parVars, files, rekey, catalog, metaFile,
                   handles, encVars, pathOp, blob, inst, found, twins>>

\* a handle that loads the chunks of a file in order and comes back to its
\* first chunks
CacheNext ==
    \/ \E key \in HotKeys : CacheGet(key)
    \/ \E key \in 0..MaxCacheKey :
          /\ key = chunkCache.next \/ (key \in HotKeys /\ key < chunkCache.next)
          /\ CachePutCall(key)

CacheSpec == Init /\ [][CacheNext]_vars

\* ------------------------- two instances with deterministic filenames
\* PasswordKeyProvider.DeriveKey: Argon2id or PBKDF2 of password and salt
DeriveKey(password, salt) == <<password, salt>>

\* the backing name of a plaintext name under the deterministic encryptor
\* made from masterKey: SIV is a function of the key and the name
TranslatePath(masterKey, name) == <<masterKey, name>>

\* New(base, config) with a PasswordKeyProvider of password and
\* FilenameEncryption deterministic; salt is what GenerateSalt draws
TwinNew(i, password, salt) ==
    /\ twins.fs[i].st = "none"
    /\ twins' = [twins EXCEPT !.fs[i] = [st |-> "created", password |-> password,
                                         masterKey |-> DeriveKey(password, salt)]]
    /\ UNCHANGED <<engineVars, concVars, parVars, files, rekey, catalog, metaFile,
                   handles, encVars, pathOp, blob, inst, found, chunkCache>>

\* Create(name) through instance i
TwinCreate(i, name) ==
    /\ twins.fs[i].st = "created"
    /\ twins' = [twins EXCEPT !.store = @ \cup
                    {[by |-> i, name |-> name,
                      path |-> TranslatePath(twins.fs[i].masterKey, name)]}]
    /\ UNCHANGED <<engineVars, concVars, parVars, files, rekey, catalog, metaFile,
                   handles, encVars, pathOp, blob, inst, found, chunkCache>>

\* Open(name) through instance i
TwinOpen(i, name) ==
    /\ twins.fs[i].st = "created"
    /\ twins' = [twins EXCEPT !.opened =
                    [done |-> TRUE, by |-> i, name |-> name,
                     ok |-> \E r \in twins.store :
                               r.path = TranslatePath(twins.fs[i].masterKey, name)]]
    /\ UNCHANGED <<engineVars, concVars, parVars, files, rekey, catalog, metaFile,
                   handles, encVars, pathOp, blob, inst, found, chunkCache>>

TwinNext ==
    \/ \E i \in Instances, password \in 1..NumPasswords, salt \in 1..NumSalts :
          TwinNew(i, password, salt)
    \/ \E i \in Instances, name \in 1..NumNames : TwinCreate(i, name)
    \/ \E i \in Instances, name \in 1..NumNames : TwinOpen(i, name)

TwinSpec == Init /\ [][TwinNext]_vars

\* ------------------------------------------------------------ properties
\* a new call on the handle s: no result yet
Call(s) == [s EXCEPT !.err = OK, !.n = 0, !.out = <<>>, !.failed = FALSE]

\* Read calls with a buffer of ChunkSize + 1 bytes until one returns an error
\* or no byte; out is every byte delivered, err the result of the last call
RECURSIVE ReadToEOF(_, _)
ReadToEOF(s, acc) ==
    LET r == readInternal(Call(s), ChunkSize + 1)
    IN IF r.err # OK \/ Len(r.out) = 0 THEN [r EXCEPT !.out = acc \o r.out]
       ELSE ReadToEOF(r, acc \o r.out)

\* Seek(0, SeekStart), then reading to the end
ReadWhole(s) == ReadToEOF(SeekBody(Call(s), 0, 0), <<>>)

\* payloads of an overwrite: also a byte value no call of the model writes
OverwritePayloads == {[i \in 1..n |-> v] : n \in 1..ChunkSize, v \in 1..(MaxByte + 1)}

\* C1: after any sequence of Write, Seek and Read calls on one handle to a
\* fresh file, reading the whole file from offset 0 returns the bytes of the
\* plain byte array the same writes produce.
C1_FinalReadEqualsArray == ReadWhole(Cur).out = ref

\* C3: a Write of n bytes at position p, a Seek back to p and a Read of n
\* bytes on the same handle returns the bytes just written, with no error.
C3_WriteVisibleToRead ==
    \A p \in Payloads :
        position + Len(p) <= MaxPos =>
            LET w == writeInternal(Call(Cur), p)
                r == readInternal(Call(SeekBody(Call(w), position, 0)), Len(p))
            IN w.err = OK => r.err = OK /\ r.out = p

\* C4: on a reopened file, overwriting bytes inside one existing chunk and
\* closing changes exactly those plaintext bytes: the index (offsets, sizes,
\* total) and the file length are as before, every other record is as before,
\* and the chunk's record at its stored offset holds the patched chunk.
C4_OverwriteInPlace ==
    ~base.open =>
        \A pos \in 0..MaxPos, p \in OverwritePayloads :
            LET o      == OpenBody(Call(Cur))
                c      == findOrCreateChunkForWrite(pos)
                w      == writeInternal(Call(SeekBody(o, pos, 0)), p)
                z      == CloseBody(Call(w))
                before == ReadWhole(o)
                after  == ReadWhole(OpenBody(Call(z)))
            IN (InsideOneChunk(o.chunkIndex, pos, Len(p)) /\ w.err = OK /\ z.err = OK) =>
                 LET at == o.chunkIndex.ChunkOffsets[c.idx + 1]
                 IN /\ z.base.index = o.base.index
                    /\ z.base.size = o.base.size
                    /\ DOMAIN z.base.recs = DOMAIN o.base.recs
                    /\ \A q \in DOMAIN o.base.recs \ {at} : z.base.recs[q] = o.base.recs[q]
                    /\ z.base.recs[at].ok
                    /\ z.base.recs[at].data = ApplyWrite(o.base.recs[at].data, c.off, p)
                    /\ before.err = "EOF" =>
                         after.err = "EOF" /\ after.out = ApplyWrite(before.out, pos, p)

\* C5: after any call on an open handle, reading the file from offset 0 to
\* EOF yields as many bytes as the plaintext sizes of the chunk index add up to.
C5_ReadableEqualsIndexTotal ==
    base.open => Len(ReadWhole(Cur).out) = TotalPlaintextSize(chunkIndex)

\* C2: after Write calls on a fresh file and Close, the first Read of the
\* reopened file returns the first chunk of the bytes written, as reading to
\* EOF must when it returns all of them.
C2_ReopenReadsWhatWasWritten ==
    (~base.open /\ Len(ref) >= ChunkSize) =>
        LET r == readInternal(Call(OpenBody(Call(Cur))), ChunkSize)
        IN r.err = OK /\ r.out = SubSeq(ref, 1, ChunkSize)

\* C6: the chunk index is serialized to exactly the reserved region, and
\* the bytes written for the headers end before the first chunk record.
C6_IndexFitsReservedRegion ==
    LET len == IndexWriteLen(ActualSize(chunkIndex))
    IN /\ len = ChunkIndexReservedSize
       /\ \A q \in DOMAIN base.recs : FileHeaderSize + len <= q

\* C7: every write of a chunk to the backing store draws a nonce no earlier
\* encryption of the file used, and no two records of the file carry the same
\* nonce.
C7_NoncesNeverReused ==
    /\ \A i, j \in 1..Len(usedNonces) : i # j => usedNonces[i] # usedNonces[j]
    /\ \A q, r \in DOMAIN base.recs :
          (q # r /\ base.recs[q].nonce # 0 /\ base.recs[r].nonce # 0) =>
              base.recs[q].nonce # base.recs[r].nonce

\* chunks were written by a bulk write and a chunk was written a second time
C7_Witness ==
    /\ ChunkCount(chunkIndex) >= BulkThreshold
    /\ Len(usedNonces) > ChunkCount(chunkIndex)
    /\ Cardinality(DOMAIN base.recs) = ChunkCount(chunkIndex)

\* the call that ended in s from the handle s0 reported a failed chunk write
Reported(s0, s) ==
    s.failed => /\ s.err # OK
                /\ s.base.index = s0.base.index
                /\ s.chunkIndex = s0.chunkIndex

\* C8: a call during which the write of a chunk to the backing store fails
\* returns an error, and leaves the chunk index and the headers on the
\* backing file as they were.
C8_FailedChunkWriteReturnsError ==
    /\ \A p \in Payloads : Reported(Cur, writeInternal(Call(Cur), p))
    /\ \A p \in BulkPayloads : Reported(Cur, WriteBulkBody(Call(Cur), p))
    /\ Reported(Cur, SyncBody(Call(Cur)))
    /\ Reported(Cur, CloseBody(Call(Cur)))

\* thread t is executing statements of a method that work on the handle or
\* on its backing file
Working(t) == thr[t].pc \in {"body", "unlock", "base"}

\* C9: a thread works inside a public method of the handle only while it
\* holds the handle's lock, so no two threads work inside methods at once.
C9_MethodsHoldLock ==
    /\ \A t \in Threads : Working(t) => mu = t
    /\ \A t, u \in Threads : (t # u /\ Working(t)) => ~Working(u)

\* C10: when parallelEncryptChunks / parallelDecryptChunks returns, every
\* worker has returned (no panic is left unrecovered); if an engine call
\* failed or panicked the result is one of those failures, the first one
\* sent to errChan; if none did the result is nil and every job's output is
\* filled in.
C10_OneErrorSurfaces ==
    parMain.pc = "done" =>
        /\ \A w \in DOMAIN workers : workers[w].pc = "gone"
        /\ raised.all # {} => parMain.ret \in raised.all /\ parMain.ret = raised.first
        /\ raised.all = {} => parMain.ret = NoError /\ \A i \in DOMAIN chunks : chunks[i]

\* the pool has returned after one worker's call returned an error and
\* another worker's call panicked
C10_Witness ==
    /\ parMain.pc = "done"
    /\ \E e, f \in raised.all : e.kind = "err" /\ f.kind = "panic"
    /\ parMain.ret # NoError

\* C11: a parallel bulk operation terminates, and once it has returned every
\* worker it started has exited, whatever the numbers of workers and jobs and
\* whichever engine calls fail or panic.
C11_BulkTerminates ==
    <>[](parMain.pc = "done" /\ \A w \in DOMAIN workers : workers[w].pc = "gone")

\* the call has returned although every worker stopped early on a failure and
\* jobs were left in jobChan
C11_Witness ==
    /\ parMain.pc = "done"
    /\ Len(jobChan.q) > 0
    /\ Cardinality(raised.all) = Len(workers)

\* the call that ended in s from the handle s0 failed with a Closed error and
\* changed neither the handle nor the backing file
ClosedFailure(s0, s) ==
    /\ s.err = "closed"
    /\ s.position = s0.position /\ s.dirty = s0.dirty /\ s.chunkDirty = s0.chunkDirty
    /\ s.currentIdx = s0.currentIdx /\ s.currentBuf = s0.currentBuf
    /\ s.chunkIndex = s0.chunkIndex /\ s.cache = s0.cache
    /\ s.base = s0.base

\* C12: on a handle whose Close has returned, Read, Write, Seek, Sync and
\* WriteBulk each fail with a Closed error and change neither the handle nor
\* the backing file.
C12_ClosedHandleFails ==
    ~base.open =>
        /\ \A len \in ReadLens \ {0} : ClosedFailure(Cur, readInternal(Call(Cur), len))
        /\ \A p \in Payloads : ClosedFailure(Cur, writeInternal(Call(Cur), p))
        /\ \A offset \in SeekOffsets : ClosedFailure(Cur, SeekBody(Call(Cur), offset, 0))
        /\ ClosedFailure(Cur, SyncBody(Call(Cur)))
        /\ \A p \in BulkPayloads : ClosedFailure(Cur, WriteBulkBody(Call(Cur), p))

SameStrategy(f, cfg) ==
    \/ f.kind = "blob" /\ ~cfg.chunked
    \/ f.kind = "chunked" /\ cfg.chunked

\* C14: a file written under one passphrase does not open through a
\* filesystem configured with another one: OpenFile fails with an
\* authentication failure, for the chunked and the single-blob strategy.
C14_WrongKeyOpenFails ==
    \A path \in Paths, cfg \in Configs :
        LET f == files[path]
        IN (SameStrategy(f, cfg) /\ Len(cfg.providers) = 1 /\ Primary(cfg) # f.key) =>
              OpenFile(f, cfg, "rdonly").err = "auth"

\* C15: a filesystem with a list of key providers writes new files under the
\* first one, and opens and reads a file written under any key of the list.
C15_MultiKeyOpens ==
    /\ \A cfg \in Configs, content \in Plaintexts :
          LET o == OpenFile(NoFile, cfg, "create")
          IN o.err = OK /\ WriteClose(o.h, content).key = cfg.providers[1]
    /\ \A path \in Paths, cfg \in Configs :
          LET f == files[path]
              r == ReadFile(f, cfg)
          IN (SameStrategy(f, cfg) /\ \E i \in DOMAIN cfg.providers : cfg.providers[i] = f.key) =>
                r.err = OK /\ r.data = f.data

\* a call of ReEncrypt that was no dry run has returned success
ReEncrypted ==
    /\ rekey.op = "ReEncrypt" /\ rekey.pc = "returned"
    /\ ~rekey.dryRun /\ rekey.ret = OK

\* C16: after ReEncrypt of a file holding plaintext P returned success, the
\* file read through the filesystem's configuration with the new key yields
\* exactly P, and opening it with the old key fails authentication.
C16_ReEncryptedReadsUnderNewKey ==
    (ReEncrypted /\ \A i \in DOMAIN rekey.cfg.providers : rekey.cfg.providers[i] # rekey.newKey) =>
        LET f == files[rekey.path]
            r == ReadFile(f, WithKey(rekey.cfg, rekey.newKey))
        IN /\ r.err = OK /\ r.data = rekey.content
           /\ ReadFile(f, rekey.cfg).err = "auth"

\* C17: at every point of a ReEncrypt of a file, and after it has left off
\* with an error, the path holds the complete old file or the complete file
\* under the new key, never an empty or partly written one.
C17_ReEncryptIsAtomic ==
    (rekey.op # "none" /\ rekey.before.kind \in {"blob", "chunked"}) =>
        LET f == files[rekey.path]
        IN \/ f = rekey.before
           \/ f.kind \in {"blob", "chunked"} /\ f.key = rekey.newKey /\ f.data = rekey.before.data

\* a dry run of ReEncrypt has returned without error
DryRunReturned == rekey.op = "ReEncrypt" /\ rekey.pc = "returned" /\ rekey.dryRun /\ rekey.ret = OK

\* C18: after ReEncrypt with DryRun set, of a file that holds ciphertext,
\* the path holds what it held before the call, the file still opens and
\* reads with the original key, and it still fails to open with the new key.
C18_DryRunChangesNothing ==
    (DryRunReturned /\ rekey.before.kind \in {"blob", "chunked"} /\ \A i \in DOMAIN rekey.cfg.providers : rekey.cfg.providers[i] # rekey.newKey) =>
        LET f == files[rekey.path]
        IN /\ f = rekey.before
           /\ ReadFile(f, rekey.cfg) = [err |-> OK, data |-> rekey.content]
           /\ OpenFile(f, WithKey(rekey.cfg, rekey.newKey), "rdonly").err # OK

\* a call of RotateAllKeys has returned
Rotated == rekey.op = "RotateAllKeys" /\ rekey.pc = "returned"

\* the regular files the base filesystem holds
RegularFiles == {p \in Paths : files[p].kind \in {"empty", "blob", "chunked"}}

\* C19: when RotateAllKeys returns, every regular file under the root was
\* visited (re-encryption attempted, or its failure recorded) whatever
\* failed before it, rotated + failed is the number of files visited, and the
\* result is an error exactly when something failed.
C19_RotateAllKeysVisitsAll ==
    Rotated =>
        /\ RegularFiles \subseteq rekey.visited
        /\ rekey.rotated + rekey.failed = Cardinality(rekey.visited)
        /\ (rekey.ret = OK) <=> (rekey.failed = 0)

\* the forward map m and the reverse map r are inverses of each other
Inverses(m, r) ==
    /\ \A e \in DOMAIN m : m[e] \in DOMAIN r /\ r[m[e]] = e
    /\ \A p \in DOMAIN r : r[p] \in DOMAIN m /\ m[r[p]] = p

\* C20: after every Add, every name minted by EncryptFilename and every
\* Save and Load, the catalog's forward and reverse maps are exact inverses.
C20_CatalogMapsInverse == Inverses(catalog.Mappings, catalog.Reverse)

\* C21: a name created through the filesystem in random filename mode is
\* in the catalog file once its file was synced or closed: every catalog a
\* new filesystem instance can load resolves the name to the same token.
C21_CreatedNamesPersisted ==
    \A p \in Names : handles[p].st \in {"synced", "closed"} =>
        \A c \in LoadedCatalogs :
            p \in DOMAIN c.Reverse /\ c.Reverse[p] = handles[p].token

\* C22: within one filesystem instance in random mode every request for
\* the same plaintext component returns the same token, from whatever thread
\* and however often, and a component has at most one token minted.
C22_SameNameSameToken ==
    /\ \A a \in issued, b \in issued : a[1] = b[1] => a[2] = b[2]
    /\ \A e1 \in DOMAIN catalog.Mappings, e2 \in DOMAIN catalog.Mappings :
          catalog.Mappings[e1] = catalog.Mappings[e2] => e1 = e2

\* a thread is about to return the token that another thread minted for the
\* same name and has returned, while the other thread waits for the lock
C22_Witness ==
    \E t \in 1..NumThreads, u \in 1..NumThreads :
        /\ t # u
        /\ encThr[t].pc = "unlock"
        /\ <<encThr[t].name, encThr[t].result>> \in issued
        /\ encThr[u].pc = "lock"
        /\ encThr[u].name = encThr[t].name

\* EncryptPath has returned output for input: DecryptPath gives the input
\* back, and the reserved components are where they were
EncryptThenDecrypt ==
    pathOp.op = "enc" =>
        LET d == DecryptPath(pathOp.mode, pathOp.preserve, catalog, pathOp.output)
            plain == Split(pathOp.input)
            enc == Split(pathOp.output)
        IN /\ d.err = OK /\ d.out = pathOp.input
           /\ Len(enc) = Len(plain)
           /\ \A i \in DOMAIN plain : Reserved(plain[i]) => enc[i] = plain[i]

\* DecryptPath has returned output for input: EncryptPath gives the input
\* back
DecryptThenEncrypt ==
    (pathOp.op = "dec" /\ pathOp.err = OK) =>
        \A ids \in IdLists :
            EncryptPath(pathOp.mode, pathOp.preserve, catalog, pathOp.output, ids).out = pathOp.input

\* C23: in each filename mode DecryptPath undoes EncryptPath and
\* EncryptPath undoes DecryptPath wherever DecryptPath succeeds, and "", "."
\* and ".." pass through unchanged.
C23_PathRoundTrips == EncryptThenDecrypt /\ DecryptThenEncrypt

\* C24: no two encryptions of the single-blob file, on one handle or across
\* a reopening, are made under the same key (salt) and the same nonce.
C24_BlobNoncesUnique ==
    \A i \in DOMAIN blob.log, j \in DOMAIN blob.log : i # j => blob.log[i] # blob.log[j]

\* a chunk size the configuration may have: 0, or 4 KiB to 16 MiB
ChunkSizeAllowed(n) == n = 0 \/ (4 * 1024 <= n /\ n <= 16 * 1024 * 1024)

C26_TruncateShrinks ==
    base.open =>
        \A n \in 0..TotalPlaintextSize(chunkIndex) :
            LET before == ReadWhole(Cur).out
                t == TruncateBody(Call(Cur), n)
            IN /\ t.err = OK
               /\ TotalPlaintextSize(t.chunkIndex) = n
               /\ ReadWhole(t).out = SubSeq(before, 1, n)

\* C27: once Close has completed, the handle holds no decrypted chunk data:
\* the current chunk buffer is gone and the chunk cache has no entry.
C27_CloseClearsPlaintext ==
    ~base.open => currentBuf.isNil /\ cache = NewChunkCache

\* the chunk that a load of chunk k on this handle delivers, and the chunk
\* stored for k in the backing file at that moment
LoadedChunk(k) == ensureChunkLoaded(Call(Cur), k)

\* C28: a load of a chunk other than the current one never delivers content
\* that differs from what the last flush of that chunk stored: a cache entry
\* for a flushed chunk is dropped or replaced by the flush.
C28_LoadSeesLastFlush ==
    base.open =>
        \A k \in 0..(ChunkCount(chunkIndex) - 1) :
            (k # currentIdx \/ currentBuf.isNil) =>
                LET l == LoadedChunk(k)
                    r == readChunk(l, k)
                IN (l.err = OK /\ r.err = OK) => l.currentBuf.b = r.data

\* the chunk indexes a call can ask for within the positions of the model
ChunkIdxs == 0..(MaxPos \div ChunkSize)

\* C29: when a load replaces the modified current chunk by another chunk,
\* the backing file holds the content of the replaced buffer under that
\* chunk's own index.
C29_ReplacedChunkWasFlushed ==
    (base.open /\ chunkDirty /\ ~currentBuf.isNil) =>
        \A k \in ChunkIdxs \ {currentIdx} :
            LET l == LoadedChunk(k)
            IN l.err = OK =>
                 /\ currentIdx < ChunkCount(l.chunkIndex)
                 /\ readChunk(l, currentIdx).err = OK
                 /\ readChunk(l, currentIdx).data = currentBuf.b

\* C30: every entry of the chunk index has a plaintext size of at most
\* ChunkSize, and every entry but the last has exactly ChunkSize.
C30_OnlyLastChunkShort ==
    \A i \in 1..ChunkCount(chunkIndex) :
        /\ chunkIndex.PlaintextSizes[i] <= ChunkSize
        /\ i < ChunkCount(chunkIndex) => chunkIndex.PlaintextSizes[i] = ChunkSize

\* C31: the records of consecutive chunks do not overlap in the backing
\* file: each chunk's offset is at least the offset of the chunk before it
\* plus that chunk's plaintext size, size field, nonce and tag.
C31_RecordsDoNotOverlap ==
    \A i \in 1..(ChunkCount(chunkIndex) - 1) :
        chunkIndex.ChunkOffsets[i + 1] >=
            chunkIndex.ChunkOffsets[i] + RecordSize(chunkIndex.PlaintextSizes[i])

\* the chunk and in-chunk offset at which a read of position p looks, and
\* those a write at position p goes to
ReadRoute(p) == FindChunkForOffset(chunkIndex, p)
WriteRoute(p) == findOrCreateChunkForWrite(p)

\* the index after the modified current chunk has been flushed
FlushedIndex == flushCurrentChunk(Call(Cur))

\* C32: for every position of the file a read finds the byte in the chunk
\* and at the in-chunk offset a write at that position is routed to, and a
\* flush of the current chunk stores it under the index it was addressed by.
C32_WriteAndReadRouteAgree ==
    /\ \A p \in 0..(TotalPlaintextSize(chunkIndex) - 1) :
           /\ ReadRoute(p).err = OK
           /\ ReadRoute(p).idx = WriteRoute(p).idx
           /\ ReadRoute(p).off = WriteRoute(p).off
    /\ (base.open /\ chunkDirty /\ ~currentBuf.isNil /\ FlushedIndex.err = OK) =>
           /\ currentIdx < ChunkCount(FlushedIndex.chunkIndex)
           /\ FlushedIndex.chunkIndex.PlaintextSizes[currentIdx + 1] = Len(currentBuf.b)

\* the read loop for a buffer of len bytes started at offset off, as Read
\* (off = position), ReadAt and the sequential path of ReadBulk run it
ReadFrom(off, len) == readInternal([Call(Cur) EXCEPT !.position = off], len)

\* C33: every read terminates: no step of the read loop copies a negative
\* number of bytes and no step that copies nothing is repeated.
C33_ReadsTerminate ==
    \A len \in ReadLens \ {0}, off \in 0..MaxPos :
        ReadFrom(off, len).err \notin {"hang", "panic"}

\* the plaintext a new handle reads from the file once the handle in state s
\* has been closed
FileContent(s) == ReadWhole(OpenBody(CloseBody(Call(s))))

\* C34: from a handle on an intact backing file, WriteBulk(p) leaves the
\* same position, the same total size and the same file content as Write(p).
C34_WriteBulkAsWrite ==
    (base.open /\ fault = "none") =>
        \A p \in BulkPayloads :
            LET bulk == WriteBulkBody(Call(Cur), p)
                seq  == writeInternal(Call(Cur), p)
            IN /\ bulk.err = seq.err
               /\ bulk.n = seq.n
               /\ bulk.position = seq.position
               /\ TotalPlaintextSize(SyncBody(bulk).chunkIndex)
                    = TotalPlaintextSize(SyncBody(seq).chunkIndex)
               /\ FileContent(bulk).out = FileContent(seq).out

\* C35: after a Seek to any offset, ReadBulk delivers the bytes, the byte
\* count, the result and the final position that Read delivers for a buffer
\* of the same length.
C35_ReadBulkAsRead ==
    base.open =>
        \A len \in BulkLens, off \in 0..MaxPos :
            LET at   == SeekBody(Call(Cur), off, 0)
                bulk == ReadBulkBody(Call(at), len)
                seq  == readInternal(Call(at), len)
            IN /\ bulk.err = seq.err
               /\ bulk.out = seq.out
               /\ bulk.position = seq.position

\* the (chunk, offset in chunk) pairs of index h that lie at plaintext offset o
PairsAt(h, o) ==
    {<<i, r>> \in (0..(ChunkCount(h) - 1)) \X (0..MaxFindSize) :
        /\ r < h.PlaintextSizes[i + 1]
        /\ SumRange(h.PlaintextSizes, 1, i) + r = o}

\* C36: FindChunkForOffset(o) returns the one pair (i, r) with
\* 0 <= r < plaintext_sizes[i] and sizes[0] + ... + sizes[i-1] + r = o for
\* 0 <= o < total, the sentinel (chunk_count, 0) for o = total, and an error
\* for o < 0 and for o > total.
C36_FindChunkForOffsetInverts ==
    found.called =>
        LET h == found.h
            o == found.offset
            r == found.result
            total == TotalPlaintextSize(h)
        IN /\ (0 <= o /\ o < total) =>
                  r.err = OK /\ PairsAt(h, o) = {<<r.idx, r.off>>}
           /\ o = total => r.err = OK /\ r.idx = ChunkCount(h) /\ r.off = 0
           /\ (o < 0 \/ o > total) => r.err # OK

\* a lookup inside a later chunk of an index that also holds an empty chunk
C36_Witness ==
    /\ found.called
    /\ found.result.err = OK
    /\ found.result.idx = 2
    /\ found.result.off = 1
    /\ found.h.PlaintextSizes[2] = 0

\* C37: the chunk cache holds at most 16 chunks, and the entry a Put evicts
\* is the least recently used one, a hit of Get being a use.
C37_CacheEvictsLeastRecentlyUsed ==
    /\ Cardinality(DOMAIN chunkCache.c.cache) <= 16
    /\ chunkCache.evicted = chunkCache.oldest

\* C38: Close closes the backing file whether or not its Sync succeeds, and
\* reports the error of a Sync that failed.
C38_CloseReleasesBackingFile ==
    base.open =>
        LET closed == CloseBody(Call(Cur))
            synced == SyncBody(Call(Cur))
        IN /\ ~closed.base.open
           /\ synced.err # OK => closed.err = synced.err

\* C39: after ReEncrypt returned success the file is stored in the format of
\* the filesystem that made the call (chunked or single-blob), and that
\* filesystem's settings with the new key open it.
C39_ReEncryptKeepsFormat ==
    ReEncrypted =>
        LET f == files[rekey.path]
        IN /\ f.kind = (IF rekey.cfg.chunked THEN "chunked" ELSE "blob")
           /\ ReadFile(f, WithKey(rekey.cfg, rekey.newKey)).err = OK

\* instances i and j exist and were made with the same passphrase
SamePassword(i, j) ==
    /\ twins.fs[i].st = "created"
    /\ twins.fs[j].st = "created"
    /\ twins.fs[i].password = twins.fs[j].password

\* C40: two instances made with the same passphrase and deterministic
\* filename encryption give every plaintext name the same backing name, and
\* a file created by name through one is found by that name through the other.
C40_SamePassphraseSamePaths ==
    /\ \A i, j \in Instances :
          SamePassword(i, j) =>
              \A name \in 1..NumNames :
                  TranslatePath(twins.fs[i].masterKey, name)
                      = TranslatePath(twins.fs[j].masterKey, name)
    /\ twins.opened.done =>
          \A r \in twins.store :
              (r.name = twins.opened.name /\ SamePassword(r.by, twins.opened.by))
                  => twins.opened.ok

====
